---- MODULE Spec2Model ----
(***************************************************************************)
(* Key extraction core of AAlog (chatlog): the Extract pipeline of the     *)
(* Windows V3 extractor, of the two Windows V4 extractors (the pointer-    *)
(* chase worker and the strategy-based worker built on SearchKey) and of   *)
(* the non-Windows V4 build.                                               *)
(*                                                                         *)
(* One Extract call is modelled: the coordinator (Extract itself), the     *)
(* producer goroutine (findMemory), the worker goroutines, the joiner      *)
(* goroutine and the caller's context.  Every goroutine step is one        *)
(* action; a Go select is an action per ready case.                        *)
(*                                                                         *)
(* Data abstraction.  A byte string is a sequence of 16-byte units, so a   *)
(* 32-byte candidate is a pair of units and hex text is a sequence of     *)
(* encoded units.  Nothing looks at the bytes of a chunk between           *)
(* ReadProcessMemory and a scan, so the queue carries the chunks as        *)
(* tokens and the bytes the target held are drawn when a scan looks at     *)
(* them: a pointer-chase worker draws, at each bytes.LastIndex, whether    *)
(* one more occurrence of the key pattern precedes `index` and the         *)
(* pointer value in front of it; SearchKey draws the chunk as its `hits`   *)
(* (the pointer values in front of the pattern occurrences, in increasing  *)
(* offset order) and its `wins` (the 32-byte windows around the markers    *)
(* of the WeixinDLL strategy, in scan order).  A chunk on which SearchKey   *)
(* does not return (one marker string twice, nothing approved) is the      *)
(* outcome of V4WorkerSearchStuck, or of V4WorkerSearchWedged when the     *)
(* loop it is caught in never looks at the context.                        *)
(*                                                                         *)
(* Specifications.                                                         *)
(*   Spec          one Extract call with a caller that may cancel.         *)
(*   LiveSpec      the same call with a caller that never cancels and      *)
(*                 every goroutine scheduled fairly.                       *)
(*   PureSpec      single operations applied to drawn inputs: the          *)
(*                 workers' pointer test, the worker count and the spawn   *)
(*                 loop, findMemory's decision on one region, and the      *)
(*                 exit status of the v4getKey command.                    *)
(*   SearchSpec    one SearchKey call: the four strategy goroutines and    *)
(*                 the collecting loop, on chunks given by the offsets of  *)
(*                 their signatures, pointers, markers and keys.           *)
(*   StrategySpec  one strategy's Search called on its own, scheduled      *)
(*                 fairly, with a context that may be cancelled.           *)
(***************************************************************************)
EXTENDS Integers, Sequences, FiniteSets, TLC

\* ------------------------------------------------------------------ bounds
\* regions the target answers VirtualQueryEx with during one Extract
MaxRegions == 2
\* candidates (pattern occurrences plus marker windows) of one chunk
MaxHits == 2

\* ------------------------------------------------------- program constants
MaxWorkers == 16
MinWorkers == 2
MemoryChannelCap == 100
ResultChannelCap == 1
MinUserAddr == 65536

\* runtime.NumCPU() of the machines considered
NumCPUs == {1, 2}

Impls == {"v3", "v4ptr", "v4search", "stub"}
Windows == {"v3", "v4ptr", "v4search"}
V4 == {"v4ptr", "v4search"}

NoKey == << >>

\* ------------------------------------------------------- the target process
\* Pointer values met in chunks.  0x10000 is not above the lower limit.
Ptrs == {65536, 131072, 196608, 262144, 393216}

\* an address whose 32 bytes the validator approves both as DB key and as
\* image key; no chunk of the pipeline points at it
DualAddr == 327680

\* ReadProcessMemory of 32 bytes fails at these addresses (as an offset of
\* the BasePattern strategy: not inside the chunk)
Unreadable == {393216}

\* the 32 bytes at an address, as two 16-byte units
Bytes32At(p) ==
    CASE p = 131072 -> <<"db_lo", "db_hi">>
      [] p = DualAddr -> <<"dual_lo", "dual_hi">>
      [] p = 196608 -> <<"img_a", "pad">>
      [] p = 262144 -> <<"img_b", "pad">>
      [] OTHER      -> <<"junk", "junk">>

\* ------------------------------------------------------------- validator
\* the keys whose HMAC matches the reference page
Validate(keyData) == keyData \in {<<"db_lo", "db_hi">>, <<"dual_lo", "dual_hi">>}

\* decided by the first 16 bytes alone
ValidateImgKey(keyData) ==
    Len(keyData) >= 1 /\ keyData[1] \in {"img_a", "img_b", "dual_lo"}

\* ------------------------------------------------------------------- hex
HexEncode(bytes) == [i \in 1..Len(bytes) |-> <<"hex", bytes[i]>>]

HexDecode(text) == [i \in 1..Len(text) |-> text[i][2]]

\* ---------------------------------------------------------------- chunks
SeqsUpTo(S, n) == UNION {[1..k -> S] : k \in 0..n}

Chunks ==
    {c \in [hits : SeqsUpTo(Ptrs, MaxHits), wins : SeqsUpTo(Ptrs \ Unreadable, MaxHits)] :
       Len(c.hits) + Len(c.wins) <= MaxHits}

VARIABLES
    impl,           \* which Extract is called
    status,         \* proc.Status
    extPc,          \* position of Extract
    handle,         \* "none", "open", "closed"
    closeCount,     \* CloseHandle calls
    callerDone,     \* ctx.Done() of the caller's context
    firedInCall,    \* the caller's context was cancelled while Extract ran
    cancelCalled,   \* cancel() of searchCtx has run
    ret,            \* what Extract returned
    retPath,        \* the return statement taken
    finalDataKey, finalImgKey,
    workerCount,
    memoryChannel, memClosed, memCloseCount,
    resultChannel, resClosed,
    prodPc, prodErr, regionsLeft,
    wPc, index, dataKey, imgKey, keysFound,
    wSaw,           \* kinds of key candidates the worker met in its chunk
    lateUse,        \* the handle was used after CloseHandle
    validated,      \* target addresses whose bytes went to the validator
    revalidated,    \* some target address went to the validator twice
    approved,       \* the slots the validator approved a candidate for
    bothInChunk,    \* a received chunk held a DB-key and an image-key candidate
    readFailures,   \* regions whose ReadProcessMemory failed
    \* -- one operation of the program applied to drawn inputs
    pOp,            \* the operation applied
    pIn,            \* its inputs
    pOut,           \* its result
    pStarted,       \* worker goroutines the spawn loop has started
    pActive,        \* worker goroutines started and not yet returned
    \* -- one SearchKey call on one chunk
    memory,         \* the chunk handed to SearchKey
    validator,      \* e.validator != nil
    sPc,            \* position of each strategy's goroutine
    sIndex,         \* `index` of each strategy's Search
    sPat,           \* position of WeixinDLLSearch in weixinDLLPatterns
    sRet,           \* what each strategy's Search returned
    resultChan,     \* SearchKey's buffered channel
    skPc,           \* position of SearchKey
    skI,            \* SearchKey's loop counter i
    skRet,          \* what SearchKey returned
    sUsed,          \* offsets BasePatternSearch took key bytes from
    sInner          \* searchSQLiteRelatedFunctions: its pattern, index and slice

pureVars == <<pOp, pIn, pOut, pStarted, pActive>>
searchVars == <<memory, validator, sPc, sIndex, sPat, sRet, resultChan, skPc, skI,
                skRet, sUsed, sInner>>

vars == <<impl, status, extPc, handle, closeCount, callerDone, firedInCall,
          cancelCalled, ret,
          retPath, finalDataKey, finalImgKey, workerCount, memoryChannel, memClosed,
          memCloseCount, resultChannel, resClosed, prodPc, prodErr, regionsLeft,
          wPc, index, dataKey, imgKey, keysFound, wSaw, lateUse, validated,
          revalidated, approved, bothInChunk, readFailures, pureVars, searchVars>>

envVars == <<impl, status, callerDone, firedInCall, pureVars, searchVars>>
extVars == <<extPc, handle, closeCount, cancelCalled, ret, retPath, finalDataKey,
             finalImgKey, workerCount>>
prodVars == <<prodPc, prodErr, regionsLeft>>
workVars == <<wPc, index, dataKey, imgKey, keysFound, wSaw>>
chanVars == <<memoryChannel, memClosed, memCloseCount, resultChannel, resClosed>>
ghostVars == <<lateUse, validated, revalidated, approved, bothInChunk, readFailures>>

NoRet == [dataKey |-> NoKey, imgKey |-> NoKey, err |-> "none"]
Result(d, i, e) == [dataKey |-> d, imgKey |-> i, err |-> e]

Workers == 1..workerCount

\* searchCtx is derived from ctx: done when either is
CtxDone == callerDone \/ cancelCalled

\* no operation applied
PureIdle ==
    /\ pOp = "none"
    /\ pIn = << >>
    /\ pOut = 0
    /\ pStarted = 0
    /\ pActive = 0

\* SearchStrategy.Name() of the strategies NewV4Extractor configures, in order
Strategies == <<"base_pattern", "setdbkey_log", "sqlite_safety", "weixin_dll">>
StrategyNames == {Strategies[k] : k \in 1..Len(Strategies)}

NoMemory == [len |-> 0, sigs |-> {}, marks |-> {}, near |-> "fill"]
\* return "", false
NotFound_StaleKey == [key |-> <<"stale">>, found |-> FALSE]
NotFound == [key |-> NoKey, found |-> FALSE]
\* return key, true
Found(k) == [key |-> k, found |-> TRUE]

\* no SearchKey call is under way
\* SQLiteSafetySearch is not inside searchSQLiteRelatedFunctions
NoInner == [pat |-> 0, index |-> 0, start |-> 0, end |-> 0]

SearchIdle ==
    /\ memory = NoMemory
    /\ validator = FALSE
    /\ sPc = [s \in StrategyNames |-> "idle"]
    /\ sIndex = [s \in StrategyNames |-> 0]
    /\ sPat = 1
    /\ sRet = [s \in StrategyNames |-> NotFound]
    /\ resultChan = << >>
    /\ skPc = "idle"
    /\ skI = 0
    /\ skRet = NotFound
    /\ sUsed = {}
    /\ sInner = NoInner

\* the pipeline before Extract is called
PipelineIdle ==
    /\ extPc = "start"
    /\ handle = "none"
    /\ closeCount = 0
    /\ callerDone = FALSE
    /\ firedInCall = FALSE
    /\ cancelCalled = FALSE
    /\ ret = NoRet
    /\ retPath = "none"
    /\ finalDataKey = NoKey
    /\ finalImgKey = NoKey
    /\ workerCount = 0
    /\ memoryChannel = << >>
    /\ memClosed = FALSE
    /\ memCloseCount = 0
    /\ resultChannel = << >>
    /\ resClosed = FALSE
    /\ prodPc = "idle"
    /\ prodErr = "none"
    /\ regionsLeft = MaxRegions
    /\ wPc = << >>
    /\ wSaw = << >>
    /\ index = << >>
    /\ dataKey = << >>
    /\ imgKey = << >>
    /\ keysFound = << >>
    /\ lateUse = FALSE
    /\ validated = {}
    /\ revalidated = FALSE
    /\ approved = {}
    /\ bothInChunk = FALSE
    /\ readFailures = 0

Init ==
    /\ impl \in Impls
    /\ status \in {"Online", "Offline"}
    /\ PipelineIdle
    /\ PureIdle
    /\ SearchIdle

\* ---------------------------------------------------------------- Extract
\* proc.Status == model.StatusOffline
IsOffline_Never(st) == FALSE
IsOffline(st) == st = "Offline"

\* defer windows.CloseHandle(handle), run by the return statement `path`
HandleAfterReturn_LeakOnCancel(h, path) ==
    IF h = "open" /\ path # "cancel" THEN "closed" ELSE h
HandleAfterReturn(h, path) == IF h = "open" THEN "closed" ELSE h

\* a return statement of Extract with its deferred calls: cancel() when
\* searchCtx exists, then CloseHandle
Return(r, path) ==
    /\ extPc' = "returned"
    /\ ret' = r
    /\ retPath' = path
    /\ handle' = HandleAfterReturn(handle, path)
    /\ closeCount' = IF handle = "open" /\ handle' = "closed"
                     THEN closeCount + 1 ELSE closeCount
    /\ cancelCalled' = (cancelCalled \/ extPc = "select")

\* the strategy-based V4 findMemory polls ctx.Done() before each region
PollsAtLoopTop(i) == i = "v4search"

\* where an iteration of the findMemory loop starts
LoopTop(i) == IF PollsAtLoopTop(i) THEN "poll" ELSE "query"

\* workerCount := runtime.NumCPU() clamped to [2, MaxWorkers]
WorkerCountFor_NoUpperClamp(n) == IF n < MinWorkers THEN MinWorkers ELSE n
WorkerCountFor(n) ==
    IF n < MinWorkers THEN MinWorkers ELSE IF n > MaxWorkers THEN MaxWorkers ELSE n

\* if result[k] != "" { final = result[k] }
Merge(final, received) == IF received # NoKey THEN received ELSE final

\* the !ok branch of the V4 coordinator
ClosedResult_NeedsBoth(d, i) ==
    IF d # NoKey /\ i # NoKey THEN Result(d, i, "nil")
    ELSE Result(NoKey, NoKey, "NoValidKey")
ClosedResult(d, i) ==
    IF d # NoKey \/ i # NoKey THEN Result(d, i, "nil")
    ELSE Result(NoKey, NoKey, "NoValidKey")

\* the non-Windows build: return "", "", nil
ExtractStub ==
    /\ impl = "stub" /\ extPc = "start"
    /\ Return(Result(NoKey, NoKey, "nil"), "stub")
    /\ UNCHANGED <<finalDataKey, finalImgKey, workerCount>>
    /\ UNCHANGED <<envVars, prodVars, workVars, chanVars, ghostVars>>

ExtractOffline ==
    /\ impl \in Windows /\ extPc = "start"
    /\ IsOffline(status)
    /\ Return(Result(NoKey, NoKey, "WeChatOffline"), "offline")
    /\ UNCHANGED <<finalDataKey, finalImgKey, workerCount>>
    /\ UNCHANGED <<envVars, prodVars, workVars, chanVars, ghostVars>>

\* windows.OpenProcess fails
ExtractOpenFailed ==
    /\ impl \in Windows /\ extPc = "start"
    /\ ~IsOffline(status)
    /\ Return(Result(NoKey, NoKey, "OpenProcessFailed"), "openfail")
    /\ UNCHANGED <<finalDataKey, finalImgKey, workerCount>>
    /\ UNCHANGED <<envVars, prodVars, workVars, chanVars, ghostVars>>

ExtractOpen ==
    /\ impl \in Windows /\ extPc = "start"
    /\ ~IsOffline(status)
    /\ handle' = "open"
    /\ extPc' = IF impl = "v3" THEN "arch" ELSE "spawn"
    /\ UNCHANGED <<closeCount, cancelCalled, ret, retPath, finalDataKey, finalImgKey,
                   workerCount>>
    /\ UNCHANGED <<envVars, prodVars, workVars, chanVars, ghostVars>>

\* V3: util.Is64Bit(handle) fails
ExtractArchFailed ==
    /\ extPc = "arch"
    /\ Return(Result(NoKey, NoKey, "Is64BitFailed"), "archfail")
    /\ UNCHANGED <<finalDataKey, finalImgKey, workerCount>>
    /\ UNCHANGED <<envVars, prodVars, workVars, chanVars, ghostVars>>

ExtractArch ==
    /\ extPc = "arch"
    /\ extPc' = "spawn"
    /\ UNCHANGED <<handle, closeCount, cancelCalled, ret, retPath, finalDataKey,
                   finalImgKey, workerCount>>
    /\ UNCHANGED <<envVars, prodVars, workVars, chanVars, ghostVars>>

\* searchCtx, the channels, the workers, the producer and the joiner
ExtractSpawn ==
    /\ extPc = "spawn"
    /\ \E n \in NumCPUs :
         /\ workerCount' = WorkerCountFor(n)
         /\ wPc' = [w \in 1..workerCount' |-> "recv"]
         /\ wSaw' = [w \in 1..workerCount' |-> {}]
         /\ index' = [w \in 1..workerCount' |-> 0]
         /\ dataKey' = [w \in 1..workerCount' |-> NoKey]
         /\ imgKey' = [w \in 1..workerCount' |-> NoKey]
         /\ keysFound' = [w \in 1..workerCount' |-> {}]
    /\ prodPc' = IF impl = "v3" THEN "find" ELSE LoopTop(impl)
    /\ extPc' = "select"
    /\ UNCHANGED <<handle, closeCount, cancelCalled, ret, retPath, finalDataKey,
                   finalImgKey>>
    /\ UNCHANGED <<envVars, prodErr, regionsLeft, chanVars, ghostVars>>

\* case <-ctx.Done(): return "", "", ctx.Err()
ExtractCancelled ==
    /\ extPc = "select"
    /\ callerDone
    /\ Return(Result(NoKey, NoKey, "Cancelled"), "cancel")
    /\ UNCHANGED <<finalDataKey, finalImgKey, workerCount>>
    /\ UNCHANGED <<envVars, prodVars, workVars, chanVars, ghostVars>>

\* V3, case result, ok := <-resultChannel with a value
V3ExtractReceive ==
    /\ impl = "v3" /\ extPc = "select"
    /\ resultChannel # << >>
    /\ LET result == Head(resultChannel)[1] IN
         IF result # NoKey
         THEN Return(Result(result, NoKey, "nil"), "key")
         ELSE Return(Result(NoKey, NoKey, "NoValidKey"), "closed")
    /\ resultChannel' = Tail(resultChannel)
    /\ UNCHANGED <<finalDataKey, finalImgKey, workerCount>>
    /\ UNCHANGED <<envVars, prodVars, workVars, memoryChannel, memClosed, memCloseCount,
                   resClosed, ghostVars>>

\* V3, the receive on the closed channel: fall through to ErrNoValidKey
V3ExtractClosed ==
    /\ impl = "v3" /\ extPc = "select"
    /\ resultChannel = << >> /\ resClosed
    /\ Return(Result(NoKey, NoKey, "NoValidKey"), "closed")
    /\ UNCHANGED <<finalDataKey, finalImgKey, workerCount>>
    /\ UNCHANGED <<envVars, prodVars, workVars, chanVars, ghostVars>>

\* V4, case result, ok := <-resultChannel with a value: merge, return on both
V4ExtractReceive ==
    /\ impl \in V4 /\ extPc = "select"
    /\ resultChannel # << >>
    /\ resultChannel' = Tail(resultChannel)
    /\ finalDataKey' = Merge(finalDataKey, Head(resultChannel)[1])
    /\ finalImgKey' = Merge(finalImgKey, Head(resultChannel)[2])
    /\ IF finalDataKey' # NoKey /\ finalImgKey' # NoKey
       THEN Return(Result(finalDataKey', finalImgKey', "nil"), "both")
       ELSE UNCHANGED <<extPc, handle, closeCount, cancelCalled, ret, retPath>>
    /\ UNCHANGED workerCount
    /\ UNCHANGED <<envVars, prodVars, workVars, memoryChannel, memClosed, memCloseCount,
                   resClosed, ghostVars>>

\* V4, the receive on the closed channel
V4ExtractClosed ==
    /\ impl \in V4 /\ extPc = "select"
    /\ resultChannel = << >> /\ resClosed
    /\ Return(ClosedResult(finalDataKey, finalImgKey), "closed")
    /\ UNCHANGED <<finalDataKey, finalImgKey, workerCount>>
    /\ UNCHANGED <<envVars, prodVars, workVars, chanVars, ghostVars>>

\* the caller's context is cancelled while Extract has not returned
CallerCancel ==
    /\ extPc # "returned"
    /\ ~callerDone
    /\ callerDone' = TRUE
    /\ firedInCall' = (extPc # "start")
    /\ UNCHANGED <<impl, status, pureVars, searchVars, extVars, prodVars, workVars,
                   chanVars, ghostVars>>

\* the joiner: producerWaitGroup.Wait(); workerWaitGroup.Wait(); close(resultChannel)
JoinerClose_BeforeWorkers ==
    /\ workerCount > 0
    /\ prodPc = "done"
    /\ ~resClosed
    /\ resClosed' = TRUE
    /\ UNCHANGED <<envVars, extVars, prodVars, workVars, memoryChannel, memClosed,
                   memCloseCount, resultChannel, ghostVars>>
JoinerClose ==
    /\ workerCount > 0
    /\ prodPc = "done"
    /\ \A w \in Workers : wPc[w] = "done"
    /\ ~resClosed
    /\ resClosed' = TRUE
    /\ UNCHANGED <<envVars, extVars, prodVars, workVars, memoryChannel, memClosed,
                   memCloseCount, resultChannel, ghostVars>>

\* --------------------------------------------------------------- producer
\* the goroutine that runs findMemory ends: defer close(memoryChannel)
ProducerExit_LeavesOpen(err) ==
    /\ prodPc' = "done"
    /\ prodErr' = err
    /\ UNCHANGED <<memClosed, memCloseCount>>
ProducerExit(err) ==
    /\ prodPc' = "done"
    /\ prodErr' = err
    /\ memClosed' = TRUE
    /\ memCloseCount' = memCloseCount + 1

\* the handle is used while Extract has already closed it
Late == lateUse \/ handle = "closed"

\* V3 findMemory: FindModule(pid, V3ModuleName) finds the module
V3FindModuleFound ==
    /\ prodPc = "find"
    /\ prodPc' = LoopTop(impl)
    /\ UNCHANGED <<prodErr, regionsLeft>>
    /\ UNCHANGED <<envVars, extVars, workVars, chanVars, ghostVars>>

\* V3 findMemory: the module is absent, return errors.ErrWeChatDLLNotFound,
\* which the goroutine logs
V3FindModuleMissing ==
    /\ prodPc = "find"
    /\ ProducerExit("WeChatDLLNotFound")
    /\ UNCHANGED <<regionsLeft, memoryChannel, resultChannel, resClosed>>
    /\ UNCHANGED <<envVars, extVars, workVars, ghostVars>>

\* case <-ctx.Done(): return nil, at the loop top or at the queue send
ProducerCtxDone ==
    /\ prodPc \in {"poll", "send"}
    /\ CtxDone
    /\ ProducerExit("none")
    /\ UNCHANGED <<regionsLeft, memoryChannel, resultChannel, resClosed>>
    /\ UNCHANGED <<envVars, extVars, workVars, ghostVars>>

\* the select's default at the loop top: ctx is live, on to the loop body
ProducerPoll ==
    /\ prodPc = "poll"
    /\ ~CtxDone
    /\ prodPc' = "query"
    /\ UNCHANGED <<prodErr, regionsLeft>>
    /\ UNCHANGED <<envVars, extVars, workVars, chanVars, ghostVars>>

\* the loop body starts with windows.VirtualQueryEx(handle, currentAddr, ...)
LoopRuns == prodPc = "query"

\* currentAddr reached the end of the range: the loop condition fails
ProducerExhausted ==
    /\ prodPc \in {"poll", "query"}
    /\ regionsLeft = 0
    /\ ProducerExit("none")
    /\ UNCHANGED <<regionsLeft, memoryChannel, resultChannel, resClosed>>
    /\ UNCHANGED <<envVars, extVars, workVars, ghostVars>>

\* windows.VirtualQueryEx fails: break
ProducerQueryFailed ==
    /\ LoopRuns
    /\ regionsLeft > 0
    /\ lateUse' = Late
    /\ ProducerExit("none")
    /\ UNCHANGED <<regionsLeft, memoryChannel, resultChannel, resClosed>>
    /\ UNCHANGED <<envVars, extVars, workVars, validated, revalidated, approved, bothInChunk,
                   readFailures>>

\* mbi.RegionSize below the threshold: skipped without a read
ProducerSkipSmall ==
    /\ LoopRuns
    /\ regionsLeft > 0
    /\ lateUse' = Late
    /\ regionsLeft' = regionsLeft - 1
    /\ prodPc' = LoopTop(impl)
    /\ UNCHANGED prodErr
    /\ UNCHANGED <<envVars, extVars, workVars, chanVars, validated, revalidated, approved,
                   bothInChunk, readFailures>>

\* the protection/state/type filter rejects the region
ProducerSkipFiltered ==
    /\ LoopRuns
    /\ regionsLeft > 0
    /\ lateUse' = Late
    /\ regionsLeft' = regionsLeft - 1
    /\ prodPc' = LoopTop(impl)
    /\ UNCHANGED prodErr
    /\ UNCHANGED <<envVars, extVars, workVars, chanVars, validated, revalidated, approved,
                   bothInChunk, readFailures>>

\* windows.ReadProcessMemory of the region fails: nothing is sent
ProducerReadFailed_Aborts ==
    /\ LoopRuns
    /\ regionsLeft > 0
    /\ lateUse' = Late
    /\ readFailures' = readFailures + 1
    /\ regionsLeft' = regionsLeft - 1
    /\ ProducerExit("ReadFailed")
    /\ UNCHANGED <<memoryChannel, resultChannel, resClosed>>
    /\ UNCHANGED <<envVars, extVars, workVars, validated, revalidated, approved,
                   bothInChunk>>
ProducerReadFailed ==
    /\ LoopRuns
    /\ regionsLeft > 0
    /\ lateUse' = Late
    /\ readFailures' = readFailures + 1
    /\ regionsLeft' = regionsLeft - 1
    /\ prodPc' = LoopTop(impl)
    /\ UNCHANGED prodErr
    /\ UNCHANGED <<envVars, extVars, workVars, chanVars, validated, revalidated, approved,
                   bothInChunk>>

\* the region passes and ReadProcessMemory fills `memory`
ProducerRead ==
    /\ LoopRuns
    /\ regionsLeft > 0
    /\ lateUse' = Late
    /\ regionsLeft' = regionsLeft - 1
    /\ prodPc' = "send"
    /\ UNCHANGED prodErr
    /\ UNCHANGED <<envVars, extVars, workVars, chanVars, validated, revalidated, approved,
                   bothInChunk, readFailures>>

\* case memoryChannel <- memory
ProducerSend ==
    /\ prodPc = "send"
    /\ Len(memoryChannel) < MemoryChannelCap
    /\ memoryChannel' = Append(memoryChannel, "chunk")
    /\ prodPc' = LoopTop(impl)
    /\ UNCHANGED <<prodErr, regionsLeft, memClosed, memCloseCount, resultChannel,
                   resClosed>>
    /\ UNCHANGED <<envVars, extVars, workVars, ghostVars>>

\* ---------------------------------------------------------------- workers
\* A pointer value is a pair <<v \div 0x10000, v % 0x10000>>, which holds
\* every value up to 0x7FFFFFFFFFFF.
Wide(p) == <<p \div MinUserAddr, p % MinUserAddr>>

WideLess(a, b) == a[1] < b[1] \/ (a[1] = b[1] /\ a[2] < b[2])

\* 0x7FFFFFFFFFFF, the upper limit of the workers' pointer test
PtrLimit == <<2147483647, 65535>>

\* ptrValue > 0x10000 && ptrValue < 0x7FFFFFFFFFFF
PtrAccepted(a) == WideLess(Wide(MinUserAddr), a) /\ WideLess(a, PtrLimit)

\* the pointer test on the values the pipeline draws
PtrInRange(p) == PtrAccepted(Wide(p))

\* what ReadProcessMemory(handle, addr, 32) can answer: on a closed handle the
\* call fails, or reads through whatever the handle value now names
ReadOutcomes(p) ==
    IF handle = "closed" THEN {FALSE, p \notin Unreadable} ELSE {p \notin Unreadable}

\* the slots validateKey approves the bytes at p for: V3 asks Validate
\* alone, V4 asks Validate and then ValidateImgKey
ApprovedAt(p) ==
    IF Validate(Bytes32At(p)) THEN {"db"}
    ELSE IF impl \in V4 /\ ValidateImgKey(Bytes32At(p)) THEN {"img"}
    ELSE {}

\* approvals are counted while the Extract call has not returned
NoteApproval(slots) ==
    approved' = IF extPc = "returned" THEN approved ELSE approved \cup slots

\* the validator is handed the bytes read at p
NoteValidation(p, readOk) ==
    /\ validated' = IF readOk THEN validated \cup {p} ELSE validated
    /\ revalidated' = (revalidated \/ (readOk /\ p \in validated))
    /\ NoteApproval(IF readOk THEN ApprovedAt(p) ELSE {})

\* V3Extractor.validateKey: the key, or "" when the read or the validation fails
V3validateKey(addr, readOk) ==
    IF ~readOk THEN NoKey
    ELSE IF Validate(Bytes32At(addr)) THEN HexEncode(Bytes32At(addr))
    ELSE NoKey

\* V4Extractor.validateKey: the key and whether it is the image key
V4validateKey_ImageFirst(addr, readOk) ==
    IF ~readOk THEN [key |-> NoKey, isImgKey |-> FALSE]
    ELSE IF ValidateImgKey(Bytes32At(addr))
         THEN [key |-> HexEncode(SubSeq(Bytes32At(addr), 1, 1)), isImgKey |-> TRUE]
    ELSE IF Validate(Bytes32At(addr))
         THEN [key |-> HexEncode(Bytes32At(addr)), isImgKey |-> FALSE]
    ELSE [key |-> NoKey, isImgKey |-> FALSE]
V4validateKey(addr, readOk) ==
    IF ~readOk THEN [key |-> NoKey, isImgKey |-> FALSE]
    ELSE IF Validate(Bytes32At(addr))
         THEN [key |-> HexEncode(Bytes32At(addr)), isImgKey |-> FALSE]
    ELSE IF ValidateImgKey(Bytes32At(addr))
         THEN [key |-> HexEncode(SubSeq(Bytes32At(addr), 1, 1)), isImgKey |-> TRUE]
    ELSE [key |-> NoKey, isImgKey |-> FALSE]

\* a send on resultChannel can proceed
HasRoom == Len(resultChannel) < ResultChannelCap

\* worker w goes on at pc with these locals; the locals of a worker that
\* returned are gone
Worker(w, pc, idx, d, i, kf, saw) ==
    LET gone == pc = "done" IN
    /\ wPc' = [wPc EXCEPT ![w] = pc]
    /\ index' = [index EXCEPT ![w] = IF gone THEN 0 ELSE idx]
    /\ dataKey' = [dataKey EXCEPT ![w] = IF gone THEN NoKey ELSE d]
    /\ imgKey' = [imgKey EXCEPT ![w] = IF gone THEN NoKey ELSE i]
    /\ keysFound' = [keysFound EXCEPT ![w] = IF gone THEN {} ELSE kf]
    /\ wSaw' = [wSaw EXCEPT ![w] = IF gone THEN {} ELSE saw]

\* return
Exit(w) == Worker(w, "done", 0, NoKey, NoKey, {}, {})

\* the worker leaves its chunk for pc: `memory` and `index` go out of scope
Leave(w, pc) == Worker(w, pc, 0, dataKey[w], imgKey[w], keysFound[w], {})

\* the worker moves to pc within its chunk
Goto(w, pc) == Worker(w, pc, index[w], dataKey[w], imgKey[w], keysFound[w], wSaw[w])

\* the kind of candidate the bytes at p are
KindAt(p) ==
    IF Validate(Bytes32At(p)) THEN {"db"}
    ELSE IF ValidateImgKey(Bytes32At(p)) THEN {"img"} ELSE {}

\* ---- V3 worker
\* case <-ctx.Done(): return, of the outer or of the inner select
V3WorkerCtxDone(w) ==
    /\ impl = "v3" /\ wPc[w] \in {"recv", "scan"}
    /\ CtxDone
    /\ Exit(w)
    /\ UNCHANGED <<envVars, extVars, prodVars, chanVars, ghostVars>>

\* case memory, ok := <-memoryChannel with a chunk: index := len(memory)
V3WorkerRecv(w) ==
    /\ impl = "v3" /\ wPc[w] = "recv"
    /\ memoryChannel # << >>
    /\ memoryChannel' = Tail(memoryChannel)
    /\ Worker(w, "scan", MaxHits, dataKey[w], imgKey[w], keysFound[w], {})
    /\ UNCHANGED <<memClosed, memCloseCount, resultChannel, resClosed>>
    /\ UNCHANGED <<envVars, extVars, prodVars, ghostVars>>

\* the channel is closed and drained: return
V3WorkerClosed(w) ==
    /\ impl = "v3" /\ wPc[w] = "recv"
    /\ memoryChannel = << >> /\ memClosed
    /\ Exit(w)
    /\ UNCHANGED <<envVars, extVars, prodVars, chanVars, ghostVars>>

\* the select's default of the inner loop: ctx is live
V3WorkerPoll(w) ==
    /\ impl = "v3" /\ wPc[w] = "scan"
    /\ ~CtxDone
    /\ Goto(w, "look")
    /\ UNCHANGED <<envVars, extVars, prodVars, chanVars, ghostVars>>

\* bytes.LastIndex finds no occurrence with a pointer in front of it: break
V3WorkerBreak(w) ==
    /\ impl = "v3" /\ wPc[w] = "look"
    /\ Leave(w, "recv")
    /\ UNCHANGED <<envVars, extVars, prodVars, chanVars, ghostVars>>

\* one turn of the inner loop on the occurrence bytes.LastIndex finds: its
\* pointer, validateKey, and the non-blocking send of a key
V3WorkerScan(w) ==
    /\ impl = "v3" /\ wPc[w] = "look"
    /\ index[w] > 0
    /\ \E ptrValue \in Ptrs :
         LET Step == Worker(w, "scan", index[w] - 1, dataKey[w], imgKey[w],
                            keysFound[w], wSaw[w])
         IN
         IF ~PtrInRange(ptrValue)
         THEN /\ Step
              /\ UNCHANGED <<resultChannel, lateUse, validated, revalidated, approved>>
         ELSE \E readOk \in ReadOutcomes(ptrValue) :
                LET key == V3validateKey(ptrValue, readOk) IN
                /\ lateUse' = Late
                /\ NoteValidation(ptrValue, readOk)
                /\ IF key # NoKey /\ HasRoom
                   THEN /\ resultChannel' = Append(resultChannel, <<key, NoKey>>)
                        /\ Exit(w)
                   ELSE /\ Step
                        /\ UNCHANGED resultChannel
    /\ UNCHANGED <<memoryChannel, memClosed, memCloseCount, resClosed, bothInChunk,
                   readFailures>>
    /\ UNCHANGED <<envVars, extVars, prodVars>>

\* ---- V4 workers: what the pointer-chase worker and the strategy-based
\* ---- worker share (the outer select, the final report, the blocking send)
Both_OnlyCoordinator(d, i) == FALSE
Both(d, i) == d # NoKey /\ i # NoKey

V4WorkerCtxDone(w) ==
    /\ impl \in V4 /\ wPc[w] \in {"recv", "scan", "poll", "send", "spin"}
    /\ CtxDone
    /\ Exit(w)
    /\ UNCHANGED <<envVars, extVars, prodVars, chanVars, ghostVars>>

V4WorkerRecv(w) ==
    /\ impl \in V4 /\ wPc[w] = "recv"
    /\ memoryChannel # << >>
    /\ memoryChannel' = Tail(memoryChannel)
    /\ Worker(w, IF impl = "v4ptr" THEN "scan" ELSE "poll", MaxHits, dataKey[w],
              imgKey[w], keysFound[w], {})
    /\ UNCHANGED <<memClosed, memCloseCount, resultChannel, resClosed>>
    /\ UNCHANGED <<envVars, extVars, prodVars, ghostVars>>

\* the channel is closed and drained: report what was found, without
\* blocking, and return
V4WorkerClosed(w) ==
    /\ impl \in V4 /\ wPc[w] = "recv"
    /\ memoryChannel = << >> /\ memClosed
    /\ resultChannel' =
         IF (dataKey[w] # NoKey \/ imgKey[w] # NoKey) /\ HasRoom
         THEN Append(resultChannel, <<dataKey[w], imgKey[w]>>)
         ELSE resultChannel
    /\ Exit(w)
    /\ UNCHANGED <<memoryChannel, memClosed, memCloseCount, resClosed>>
    /\ UNCHANGED <<envVars, extVars, prodVars, ghostVars>>

\* case resultChannel <- [2]string{dataKey, imgKey}, then the both-keys test
\* and the next turn
V4WorkerSend(w) ==
    /\ impl \in V4 /\ wPc[w] = "send"
    /\ HasRoom
    /\ resultChannel' = Append(resultChannel, <<dataKey[w], imgKey[w]>>)
    /\ IF Both(dataKey[w], imgKey[w]) THEN Exit(w)
       ELSE IF impl = "v4ptr" THEN Goto(w, "scan")
       ELSE Leave(w, "recv")
    /\ UNCHANGED <<memoryChannel, memClosed, memCloseCount, resClosed>>
    /\ UNCHANGED <<envVars, extVars, prodVars, ghostVars>>

\* ---- V4 pointer-chase worker
\* the select's default of the inner loop: ctx is live
V4WorkerPoll(w) ==
    /\ impl = "v4ptr" /\ wPc[w] = "scan"
    /\ ~CtxDone
    /\ Goto(w, "look")
    /\ UNCHANGED <<envVars, extVars, prodVars, chanVars, ghostVars>>

\* bytes.LastIndex finds no occurrence with a pointer in front of it: break
V4WorkerBreak(w) ==
    /\ impl = "v4ptr" /\ wPc[w] = "look"
    /\ Leave(w, "recv")
    /\ UNCHANGED <<envVars, extVars, prodVars, chanVars, ghostVars>>

\* one turn of the inner loop on the occurrence bytes.LastIndex finds
V4WorkerScan(w) ==
    /\ impl = "v4ptr" /\ wPc[w] = "look"
    /\ index[w] > 0
    /\ \E ptrValue \in Ptrs :
         LET saw == IF PtrInRange(ptrValue) /\ ptrValue \notin Unreadable
                    THEN wSaw[w] \cup KindAt(ptrValue) ELSE wSaw[w]
         IN
         /\ bothInChunk' = (bothInChunk \/ saw = {"db", "img"})
         /\ IF ~PtrInRange(ptrValue) \/ ptrValue \in keysFound[w]
            THEN /\ Worker(w, "scan", index[w] - 1, dataKey[w], imgKey[w],
                           keysFound[w], saw)
                 /\ UNCHANGED <<lateUse, validated, revalidated, approved>>
            ELSE \E readOk \in ReadOutcomes(ptrValue) :
                   LET v == V4validateKey(ptrValue, readOk)
                       d == IF v.key # NoKey /\ ~v.isImgKey /\ dataKey[w] = NoKey
                            THEN v.key ELSE dataKey[w]
                       i == IF v.key # NoKey /\ v.isImgKey /\ imgKey[w] = NoKey
                            THEN v.key ELSE imgKey[w]
                       kf == keysFound[w] \cup {ptrValue}
                   IN
                   /\ lateUse' = Late
                   /\ NoteValidation(ptrValue, readOk)
                   /\ IF d # dataKey[w] \/ i # imgKey[w]
                      THEN Worker(w, "send", index[w] - 1, d, i, kf, saw)
                      ELSE IF v.key # NoKey /\ Both(d, i) THEN Exit(w)
                      ELSE Worker(w, "scan", index[w] - 1, d, i, kf, saw)
    /\ UNCHANGED <<chanVars, readFailures>>
    /\ UNCHANGED <<envVars, extVars, prodVars>>

\* ---- search strategies over one chunk

\* the candidate test every strategy applies to 32 bytes
TestCandidate(keyData) ==
    IF Validate(keyData) THEN Found(HexEncode(keyData))
    ELSE IF ValidateImgKey(keyData) THEN Found(HexEncode(SubSeq(keyData, 1, 1)))
    ELSE NotFound

\* ptrOffset > 0x10000 && ptrOffset < len(memory)-0x20
OffsetInChunk(p) == p > MinUserAddr /\ p \notin Unreadable

\* BasePatternSearch.Search: occurrences from the last one backwards
RECURSIVE BasePatternFrom(_, _)
BasePatternFrom(hits, i) ==
    IF i = 0 THEN NotFound
    ELSE IF OffsetInChunk(hits[i]) /\ TestCandidate(Bytes32At(hits[i])).found
         THEN TestCandidate(Bytes32At(hits[i]))
    ELSE BasePatternFrom(hits, i - 1)

BasePatternSearch(c) == BasePatternFrom(c.hits, Len(c.hits))

\* WeixinDLLSearch.Search: the windows around its markers, in order
RECURSIVE FirstWindow(_, _)
FirstWindow(wins, i) ==
    IF i > Len(wins) THEN NotFound
    ELSE IF TestCandidate(Bytes32At(wins[i])).found THEN TestCandidate(Bytes32At(wins[i]))
    ELSE FirstWindow(wins, i + 1)

WeixinDLLSearch(c) == FirstWindow(c.wins, 1)

\* V4Extractor.SearchKey: the strategies run concurrently and the first
\* found result to arrive is returned; not found once all have reported.
\* (SetDBKeyLog and SQLiteSafety report not found: their marker is absent.)
SearchKey(c) ==
    LET reports == {BasePatternSearch(c), WeixinDLLSearch(c)}
        found == {r \in reports : r.found}
    IN IF found = {} THEN {NotFound} ELSE found

\* the slot the validator approved a found report for: a DB key is reported
\* as the hex of 32 bytes, an image key as the hex of 16
ReportSlot(r) == IF Len(r.key) = 2 THEN "db" ELSE "img"

\* a chunk in which the strategies reach a DB-key and an image-key candidate
HoldsBoth(c) ==
    LET reach == {c.hits[k] : k \in {n \in 1..Len(c.hits) : OffsetInChunk(c.hits[n])}}
                 \cup {c.wins[k] : k \in 1..Len(c.wins)}
    IN  {"db", "img"} \subseteq UNION {KindAt(p) : p \in reach}

\* ---- V4 strategy-based worker: SearchKey on the chunk, then the test of
\* ---- the kind of key it returned
\* the branch of the strategy-based worker that takes SearchKey's result
WorkerSlot(r) ==
    LET keyData == HexDecode(r.key) IN
    IF ~r.found THEN "none"
    ELSE IF Len(keyData) = 2 /\ Validate(keyData) THEN "db"
    ELSE IF Len(keyData) = 1 /\ ValidateImgKey(keyData) THEN "img16"
    ELSE IF Len(keyData) = 2 /\ ValidateImgKey(keyData) THEN "img32"
    ELSE "none"

V4WorkerSearch(w) ==
    /\ impl = "v4search" /\ wPc[w] = "poll"
    /\ ~CtxDone
    /\ \E c \in Chunks : \E r \in SearchKey(c) :
         LET key == r.key
             keyData == HexDecode(key)
             isData == WorkerSlot(r) = "db"
             isImg16 == WorkerSlot(r) = "img16"
             isImg32 == WorkerSlot(r) = "img32"
             d == IF isData /\ dataKey[w] = NoKey THEN key ELSE dataKey[w]
             i == IF isImg16 /\ imgKey[w] = NoKey THEN key
                  ELSE IF isImg32 /\ imgKey[w] = NoKey THEN SubSeq(key, 1, 1)
                  ELSE imgKey[w]
         IN
         /\ bothInChunk' = (bothInChunk \/ HoldsBoth(c))
         /\ \E seen \in SUBSET {x \in SearchKey(c) : x.found} :
              /\ r.found => r \in seen
              /\ NoteApproval({ReportSlot(x) : x \in seen})
         /\ IF d # dataKey[w] \/ i # imgKey[w]
            THEN Worker(w, "send", index[w], d, i, keysFound[w], wSaw[w])
            ELSE IF r.found /\ Both(d, i) THEN Exit(w)
            ELSE Leave(w, "recv")
    /\ UNCHANGED <<lateUse, validated, revalidated, readFailures>>
    /\ UNCHANGED <<envVars, extVars, prodVars, chanVars>>

\* SearchKey on a chunk that holds one marker string twice and nothing any
\* strategy approves: that strategy's Search is caught in its loop, never
\* reports, and SearchKey waits on resultChan
V4WorkerSearchStuck(w) ==
    /\ impl = "v4search" /\ wPc[w] = "poll"
    /\ ~CtxDone
    /\ Worker(w, "spin", 0, dataKey[w], imgKey[w], keysFound[w], wSaw[w])
    /\ UNCHANGED <<envVars, extVars, prodVars, chanVars, ghostVars>>

\* one more turn of the caught strategy's loop: its index moves between the
\* same two values
V4WorkerSpin(w) ==
    /\ impl = "v4search" /\ wPc[w] = "spin"
    /\ ~CtxDone
    /\ Worker(w, "spin", 1 - index[w], dataKey[w], imgKey[w], keysFound[w], wSaw[w])
    /\ UNCHANGED <<envVars, extVars, prodVars, chanVars, ghostVars>>

\* SearchKey on a chunk that holds "unopened" and, near it, one of the
\* sqlite names twice with nothing approved around them: SQLiteSafetySearch
\* is caught in the inner loop of searchSQLiteRelatedFunctions
V4WorkerSearchWedged(w) ==
    /\ impl = "v4search" /\ wPc[w] = "poll"
    /\ ~CtxDone
    /\ Worker(w, "wedged", 0, dataKey[w], imgKey[w], keysFound[w], wSaw[w])
    /\ UNCHANGED <<envVars, extVars, prodVars, chanVars, ghostVars>>

\* one more turn of that inner loop, which never looks at ctx: the other
\* strategies return on cancellation, SearchKey keeps waiting for this one
V4WorkerWedged(w) ==
    /\ impl = "v4search" /\ wPc[w] = "wedged"
    /\ Worker(w, "wedged", 1 - index[w], dataKey[w], imgKey[w], keysFound[w], wSaw[w])
    /\ UNCHANGED <<envVars, extVars, prodVars, chanVars, ghostVars>>

\* ------------------------------------------------------------------ system
Next ==
    \/ ExtractStub
    \/ ExtractOffline
    \/ ExtractOpenFailed
    \/ ExtractOpen
    \/ ExtractArchFailed
    \/ ExtractArch
    \/ ExtractSpawn
    \/ ExtractCancelled
    \/ V3ExtractReceive
    \/ V3ExtractClosed
    \/ V4ExtractReceive
    \/ V4ExtractClosed
    \/ CallerCancel
    \/ JoinerClose
    \/ V3FindModuleFound
    \/ V3FindModuleMissing
    \/ ProducerCtxDone
    \/ ProducerPoll
    \/ ProducerExhausted
    \/ ProducerQueryFailed
    \/ ProducerSkipSmall
    \/ ProducerSkipFiltered
    \/ ProducerReadFailed
    \/ ProducerRead
    \/ ProducerSend
    \/ \E w \in Workers : V3WorkerCtxDone(w)
    \/ \E w \in Workers : V3WorkerRecv(w)
    \/ \E w \in Workers : V3WorkerClosed(w)
    \/ \E w \in Workers : V3WorkerPoll(w)
    \/ \E w \in Workers : V3WorkerBreak(w)
    \/ \E w \in Workers : V3WorkerScan(w)
    \/ \E w \in Workers : V4WorkerCtxDone(w)
    \/ \E w \in Workers : V4WorkerRecv(w)
    \/ \E w \in Workers : V4WorkerClosed(w)
    \/ \E w \in Workers : V4WorkerSend(w)
    \/ \E w \in Workers : V4WorkerPoll(w)
    \/ \E w \in Workers : V4WorkerBreak(w)
    \/ \E w \in Workers : V4WorkerScan(w)
    \/ \E w \in Workers : V4WorkerSearch(w)
    \/ \E w \in Workers : V4WorkerSearchStuck(w)
    \/ \E w \in Workers : V4WorkerSpin(w)
    \/ \E w \in Workers : V4WorkerSearchWedged(w)
    \/ \E w \in Workers : V4WorkerWedged(w)

Spec == Init /\ [][Next]_vars

\* -- an Extract call whose caller never cancels: the steps of each goroutine
ExtractStep ==
    \/ ExtractStub
    \/ ExtractOffline
    \/ ExtractOpenFailed
    \/ ExtractOpen
    \/ ExtractArchFailed
    \/ ExtractArch
    \/ ExtractSpawn
    \/ V3ExtractReceive
    \/ V3ExtractClosed
    \/ V4ExtractReceive
    \/ V4ExtractClosed

ProducerStep ==
    \/ V3FindModuleFound
    \/ V3FindModuleMissing
    \/ ProducerCtxDone
    \/ ProducerPoll
    \/ ProducerExhausted
    \/ ProducerQueryFailed
    \/ ProducerSkipSmall
    \/ ProducerSkipFiltered
    \/ ProducerReadFailed
    \/ ProducerRead
    \/ ProducerSend

WorkerStep(w) ==
    /\ w \in Workers
    /\ \/ V3WorkerCtxDone(w)
       \/ V3WorkerRecv(w)
       \/ V3WorkerClosed(w)
       \/ V3WorkerPoll(w)
       \/ V3WorkerBreak(w)
       \/ V3WorkerScan(w)
       \/ V4WorkerCtxDone(w)
       \/ V4WorkerRecv(w)
       \/ V4WorkerClosed(w)
       \/ V4WorkerSend(w)
       \/ V4WorkerPoll(w)
       \/ V4WorkerBreak(w)
       \/ V4WorkerScan(w)
       \/ V4WorkerSearch(w)
       \/ V4WorkerSearchStuck(w)
       \/ V4WorkerSpin(w)
       \/ V4WorkerSearchWedged(w)
       \/ V4WorkerWedged(w)

LiveNext ==
    \/ ExtractStep
    \/ JoinerClose
    \/ ProducerStep
    \/ \E w \in Workers : WorkerStep(w)

\* every goroutine that can take a step eventually takes one
LiveFairness ==
    /\ WF_vars(ExtractStep)
    /\ WF_vars(JoinerClose)
    /\ WF_vars(ProducerStep)
    /\ \A w \in 1..MinWorkers : WF_vars(WorkerStep(w))

LiveSpec == Init /\ [][LiveNext]_vars /\ LiveFairness

\* ------------------------------------------------- operations on their own
\* Each action applies one operation of the program to inputs drawn from
\* the sets below and leaves the pipeline alone.

\* runtime.NumCPU() up to this many processors
MaxCPUs == 18

\* 0x7FFFFFFF and 0x7FFFFFFFFFFF: maxAddr of a 32-bit and of a 64-bit target
MaxAddr32 == <<32767, 65535>>
MaxAddr64 == <<2147483647, 65535>>
MaxAddrOf(is64Bit) == IF is64Bit THEN MaxAddr64 ELSE MaxAddr32

\* pointer values a worker may decode in front of a pattern occurrence
WidePtrs ==
    {<<0, 0>>, <<0, 65535>>, <<1, 0>>, <<1, 1>>, <<2, 0>>, <<32767, 65535>>,
     <<32768, 0>>, <<65535, 65535>>, <<65536, 0>>, <<2147483647, 65534>>,
     <<2147483647, 65535>>}

\* littleEndianFunc: a 32-bit target's pointers are read with Uint32
DecodableBy(is64Bit) == IF is64Bit THEN WidePtrs ELSE {a \in WidePtrs : a[1] <= 65535}

\* one turn of a pointer-chase worker on a decoded pointer: is validateKey
\* (and so ReadProcessMemory at that address) called
ApplyPtrTest ==
    /\ \E v \in {"v3", "v4ptr"}, is64Bit \in BOOLEAN :
         \E a \in DecodableBy(is64Bit \/ v = "v4ptr") :
           /\ pOp' = "ptr"
           /\ pIn' = [impl |-> v, is64Bit |-> is64Bit, ptrValue |-> a]
           /\ pOut' = IF PtrAccepted(a) THEN 1 ELSE 0
    /\ pStarted' = 0
    /\ pActive' = 0
    /\ UNCHANGED <<impl, status, callerDone, firedInCall, searchVars, extVars, prodVars,
                   workVars, chanVars, ghostVars>>

\* workerCount := runtime.NumCPU() and its two clamps
ApplyWorkerCount ==
    /\ pOp # "workers"
    /\ \E n \in 1..MaxCPUs :
         /\ pOp' = "workers"
         /\ pIn' = n
         /\ pOut' = WorkerCountFor(n)
    /\ pStarted' = 0
    /\ pActive' = 0
    /\ UNCHANGED <<impl, status, callerDone, firedInCall, searchVars, extVars, prodVars,
                   workVars, chanVars, ghostVars>>

\* for index := 0; index < workerCount; index++ { go func() { ... }() }
SpawnWorker ==
    /\ pOp = "workers"
    /\ pStarted < pOut
    /\ pStarted' = pStarted + 1
    /\ pActive' = pActive + 1
    /\ UNCHANGED <<pOp, pIn, pOut>>
    /\ UNCHANGED <<impl, status, callerDone, firedInCall, searchVars, extVars, prodVars,
                   workVars, chanVars, ghostVars>>

\* a started worker returns
WorkerReturns ==
    /\ pOp = "workers"
    /\ pActive > 0
    /\ pActive' = pActive - 1
    /\ UNCHANGED <<pOp, pIn, pOut, pStarted>>
    /\ UNCHANGED <<impl, status, callerDone, firedInCall, searchVars, extVars, prodVars,
                   workVars, chanVars, ghostVars>>

\* what Extract may hand back to main
MainResults ==
    {Result(d, i, e) :
        d \in {NoKey, HexEncode(<<"db_lo", "db_hi">>)},
        i \in {NoKey, HexEncode(<<"img_a">>)},
        e \in {"nil", "NoValidKey", "WeChatOffline", "OpenProcessFailed"}}

\* main of v4getKey: the exit status
MainExit_IgnoresEmptyKeys(pid, validatorErr, r) ==
    IF pid = 0 THEN 1
    ELSE IF validatorErr THEN 1
    ELSE IF r.err # "nil" THEN 1
    ELSE 0
MainExit(pid, validatorErr, r) ==
    IF pid = 0 THEN 1
    ELSE IF validatorErr THEN 1
    ELSE IF r.err # "nil" THEN 1
    ELSE IF r.dataKey = NoKey /\ r.imgKey = NoKey THEN 1
    ELSE 0

ApplyMain ==
    /\ \E pid \in {0, 13676}, validatorErr \in BOOLEAN, r \in MainResults :
         /\ pOp' = "main"
         /\ pIn' = [pid |-> pid, validatorErr |-> validatorErr, r |-> r]
         /\ pOut' = MainExit(pid, validatorErr, r)
    /\ pStarted' = 0
    /\ pActive' = 0
    /\ UNCHANGED <<impl, status, callerDone, firedInCall, searchVars, extVars, prodVars,
                   workVars, chanVars, ghostVars>>

\* RegionSize values VirtualQueryEx may report, around both thresholds
RegionSizes == {4096, 100 * 1024 - 1, 100 * 1024, 1024 * 1024 - 1, 1024 * 1024,
                2 * 1024 * 1024}

\* if mbi.RegionSize < 100*1024 (V3) / memInfo.RegionSize < 1024*1024 (V4)
RegionThreshold_ModuleScanEverywhere(v) == 100 * 1024
RegionThreshold(v) == IF v = "v3" THEN 100 * 1024 ELSE 1024 * 1024

\* one turn of findMemory's loop on the region VirtualQueryEx reported:
\* is ReadProcessMemory called on it, and is the chunk sent to the queue
ApplyRegionFilter ==
    /\ \E v \in {"v3", "v4ptr", "v4search"}, size \in RegionSizes,
          passesFilter \in BOOLEAN, readOk \in BOOLEAN :
         /\ pOp' = "region"
         /\ pIn' = [impl |-> v, RegionSize |-> size, passesFilter |-> passesFilter,
                    readOk |-> readOk]
         /\ pOut' = IF size < RegionThreshold(v)
                       THEN [read |-> FALSE, sent |-> FALSE]
                    ELSE IF ~passesFilter
                       THEN [read |-> FALSE, sent |-> FALSE]
                    ELSE [read |-> TRUE, sent |-> readOk]
    /\ pStarted' = 0
    /\ pActive' = 0
    /\ UNCHANGED <<impl, status, callerDone, firedInCall, searchVars, extVars, prodVars,
                   workVars, chanVars, ghostVars>>

\* a uint64 as four 16-bit limbs, the most significant first
U64(n) == <<0, 0, n \div 65536, n % 65536>>

\* a - k in uint64 arithmetic for a k below 65536, taken from limb i on:
\* the borrow runs up and is dropped at the top limb
RECURSIVE U64SubAt(_, _, _)
U64SubAt(a, i, k) ==
    IF a[i] >= k THEN [a EXCEPT ![i] = a[i] - k]
    ELSE IF i = 1 THEN [a EXCEPT ![1] = a[1] + 65536 - k]
    ELSE U64SubAt([a EXCEPT ![i] = a[i] + 65536 - k], i - 1, 1)

U64Sub(a, k) == U64SubAt(a, 4, k)

\* a < b on uint64
U64Less(a, b) ==
    \E i \in 1..4 : a[i] < b[i] /\ \A j \in 1..(i - 1) : a[j] = b[j]

\* ptrValue > 0x10000 && ptrValue < uint64(len(fullMemory))-32
DerefAccepted(v, n) ==
    U64Less(U64(MinUserAddr), v) /\ U64Less(v, U64Sub(U64(n), 32))

\* fullMemory[ptrValue : ptrValue+32] stays within the n bytes of the chunk
SliceInBounds(v, n) ==
    /\ v[1] = 0 /\ v[2] = 0 /\ v[3] < 32768
    /\ v[3] * 65536 + v[4] + 32 <= n

\* binary.LittleEndian.Uint64 of the strategy's marker text, which is what
\* the window over the marker itself holds
MarkerAsUint64(s) ==
    IF s = "setdbkey_log" THEN <<31077, 19266, 17524, 25939>>
    ELSE <<25701, 28261, 28783, 28277>>

\* len(fullMemory): chunks below, at and above 32 bytes that hold a marker
\* string and one more 8-byte window
DerefLens == {12, 16, 31, 32, 33, 64, 66048}

\* the 8-byte values a window of the search area may hold
WindowValues(s, n) ==
    {U64(x) : x \in {y \in {0, MinUserAddr, MinUserAddr + 1, n - 33, n - 32, n - 31,
                              n - 1, n} : y >= 0}}
    \cup {MarkerAsUint64(s), <<65535, 65535, 65535, 65535>>}

\* one turn of the pointer loop of findSetDBKeyCall or
\* searchForKeyAroundSQLiteFunction: are 32 bytes read at ptrValue, and do
\* they lie in the chunk
ApplyPtrDeref ==
    /\ \E s \in {"setdbkey_log", "sqlite_safety"}, n \in DerefLens :
         \E v \in WindowValues(s, n) :
           /\ pOp' = "deref"
           /\ pIn' = [strategy |-> s, len |-> n, ptrValue |-> v]
           /\ pOut' = [read |-> DerefAccepted(v, n),
                       panics |-> DerefAccepted(v, n) /\ ~SliceInBounds(v, n)]
    /\ pStarted' = 0
    /\ pActive' = 0
    /\ UNCHANGED <<impl, status, callerDone, firedInCall, searchVars, extVars, prodVars,
                   workVars, chanVars, ghostVars>>

SetMin(S) == CHOOSE x \in S : \A y \in S : x <= y
SetMax(S) == CHOOSE x \in S : \A y \in S : x >= y

\* the subsets of S with at most n elements
RECURSIVE SetsUpTo(_, _)
SetsUpTo(S, n) ==
    IF n = 0 THEN {{}}
    ELSE SetsUpTo(S, n - 1) \cup {T \cup {x} : T \in SetsUpTo(S, n - 1), x \in S}

\* occurrences of keyPattern in the chunk a worker scans
MaxOccurrences == 3

\* len(keyPattern) of a pointer-chase worker
PatternLenOf(v, is64Bit) ==
    IF v = "v4ptr" THEN 24 ELSE IF is64Bit THEN 8 ELSE 4

\* ptrSize of a pointer-chase worker
PtrSizeOf(v, is64Bit) == IF v = "v3" /\ ~is64Bit THEN 4 ELSE 8

\* offsets at which the chunk may hold keyPattern
ScanOffsets == {0, 4, 8, 16, 24, 40, 48, 72}

\* the sets of occurrences of a pattern of length n: no two overlap
OccurrenceSets(n) ==
    {O \in SetsUpTo(ScanOffsets, MaxOccurrences) :
        \A a, b \in O : a # b => (a + n <= b \/ b + n <= a)}

\* bytes.LastIndex(memory[:index], keyPattern)
LastIndexIn(occ, upto, n) ==
    LET c == {o \in occ : o + n <= upto}
    IN  IF c = {} THEN -1 ELSE SetMax(c)

\* the inner loop of a worker on a chunk in which no candidate validates,
\* the context staying live: the offsets it examines, in order
RECURSIVE ScanFrom(_, _, _, _)
ScanFrom(occ, upto, n, ptrSize) ==
    LET at == LastIndexIn(occ, upto, n) IN
    IF at = -1 \/ at - ptrSize < 0 THEN << >>
    ELSE <<at>> \o ScanFrom(occ, at - 1, n, ptrSize)

\* len(memory) of a chunk that holds every offset of ScanOffsets
ScanLen == 128

\* len(memory) of the chunks scanned: the short ones hold one keyPattern of
\* 4, 8 or 24 bytes and less than a pointer in front of it
ScanLens == {4, 12, 28, ScanLen}

\* one chunk through the inner loop of the V3 worker or of the V4
\* pointer-chase worker
ApplyWorkerScan_NoPointerRoom ==
    /\ \E v \in {"v3", "v4ptr"}, is64Bit \in BOOLEAN, n \in ScanLens :
         \E occ \in OccurrenceSets(PatternLenOf(v, is64Bit)) :
           /\ v = "v4ptr" => is64Bit
           /\ \A o \in occ : o + PatternLenOf(v, is64Bit) <= n
           /\ pOp' = "scan"
           /\ pIn' = [impl |-> v, is64Bit |-> is64Bit, len |-> n, occ |-> occ]
           /\ pOut' = ScanFrom(occ, n, PatternLenOf(v, is64Bit), 0)
    /\ pStarted' = 0
    /\ pActive' = 0
    /\ UNCHANGED <<impl, status, callerDone, firedInCall, searchVars, extVars, prodVars,
                   workVars, chanVars, ghostVars>>
ApplyWorkerScan ==
    /\ \E v \in {"v3", "v4ptr"}, is64Bit \in BOOLEAN, n \in ScanLens :
         \E occ \in OccurrenceSets(PatternLenOf(v, is64Bit)) :
           /\ v = "v4ptr" => is64Bit
           /\ \A o \in occ : o + PatternLenOf(v, is64Bit) <= n
           /\ pOp' = "scan"
           /\ pIn' = [impl |-> v, is64Bit |-> is64Bit, len |-> n, occ |-> occ]
           /\ pOut' = ScanFrom(occ, n, PatternLenOf(v, is64Bit),
                               PtrSizeOf(v, is64Bit))
    /\ pStarted' = 0
    /\ pActive' = 0
    /\ UNCHANGED <<impl, status, callerDone, firedInCall, searchVars, extVars, prodVars,
                   workVars, chanVars, ghostVars>>

\* one readable 32-byte candidate through V4Extractor.validateKey, through
\* a strategy's candidate test, and through the worker's branch on the
\* strategy's report
ApplyClassify ==
    /\ \E addr \in (Ptrs \cup {DualAddr}) \ Unreadable :
         LET report == TestCandidate(Bytes32At(addr)) IN
         /\ pOp' = "classify"
         /\ pIn' = [addr |-> addr]
         /\ pOut' = [validateKey |-> V4validateKey(addr, TRUE),
                     strategy |-> report,
                     slot |-> WorkerSlot(report)]
    /\ pStarted' = 0
    /\ pActive' = 0
    /\ UNCHANGED <<impl, status, callerDone, firedInCall, searchVars, extVars, prodVars,
                   workVars, chanVars, ghostVars>>

PureInit ==
    /\ impl = "stub"
    /\ status = "Online"
    /\ PipelineIdle
    /\ PureIdle
    /\ SearchIdle

PureNext ==
    \/ ApplyPtrTest
    \/ ApplyWorkerCount
    \/ SpawnWorker
    \/ WorkerReturns
    \/ ApplyMain
    \/ ApplyRegionFilter
    \/ ApplyPtrDeref
    \/ ApplyWorkerScan
    \/ ApplyClassify

PureSpec == PureInit /\ [][PureNext]_vars

\* ---------------------------------------------------------------- SearchKey
\* One SearchKey call: the four strategy goroutines and the collecting loop.
\* A chunk is described by what the strategies look for in it:
\*   len    its length in bytes
\*   sigs   the occurrences of the 24-byte keyPattern, each with its offset
\*          `off` and the little-endian value `p` of the 8 bytes before it
\*   marks  the occurrences of the marker strings, each with its offset
\*   near   what the 32 bytes at offset NearOffset hold
\* The 32 bytes at offset LowOffset hold the DB key, those at len - 33 the
\* image key, those at JunkOffset bytes no validator accepts.  Of the six
\* names searchSQLiteRelatedFunctions looks for, chunks hold "sqlite3_exec"
\* only, and only next to "unopened"; a chunk with markers is searched with
\* a validator set.  The context handed to SearchKey stays live during a
\* whole SearchKey call; it may be cancelled while a single strategy runs.

\* occurrences of keyPattern in one chunk
MaxSigs == 2
\* occurrences of marker strings in one chunk
MaxMarks == 2

\* len(keyPattern)
KeyPatternLen == 24
\* ptrSize
PtrSize == 8
\* 0x20, the length of a key
KeyLen == 32

Markers == {"SetDBKey", "unopened", "Weixin.dll", "xwechat_files", "db_storage"}

\* len(pattern)
MarkerLen(pat) ==
    CASE pat = "SetDBKey" -> 8
      [] pat = "unopened" -> 8
      [] pat = "Weixin.dll" -> 10
      [] pat = "xwechat_files" -> 13
      [] pat = "db_storage" -> 10
      [] pat = "sqlite3_exec" -> 12
      [] pat = "sqlite3_prepare_v2" -> 18
      [] pat = "sqlite3_prepare" -> 15
      [] pat = "sqlite3_step" -> 12
      [] pat = "setCipherKey" -> 12
      [] pat = "WCDB" -> 4

\* sqlitePatterns
SQLitePatterns == <<"sqlite3_exec", "sqlite3_prepare_v2", "sqlite3_prepare",
                    "sqlite3_step", "setCipherKey", "WCDB">>

\* weixinDLLPatterns
WeixinDLLPatterns == <<"Weixin.dll", "xwechat_files", "db_storage">>

\* -- the chunks drawn
Lens == {32, 256, 66048}
SigOffsets == {0, 8, 24, 168, 200}
MarkOffsets == {100, 300}
NameOffsets == {300, 500}
NearOffset == 120
EdgeOffset == 276
LowOffset == 65537
JunkOffset == 65600

\* values in front of a signature: around both ends of the accepted range
SigPtrsOf(n) ==
    IF n > JunkOffset + KeyLen
       THEN {MinUserAddr, LowOffset, JunkOffset, n - KeyLen - 1, n - KeyLen}
    ELSE {LowOffset, n - KeyLen}

\* first byte a signature occurrence and the pointer in front of it occupy
SigStart(g) == IF g.off >= PtrSize THEN g.off - PtrSize ELSE g.off

SigSets(n) ==
    {G \in SetsUpTo({[off |-> o, p |-> q] :
                        o \in {x \in SigOffsets : x + KeyPatternLen <= n},
                        q \in SigPtrsOf(n)}, MaxSigs) :
        /\ \A a, b \in G : a # b =>
              (a.off + KeyPatternLen <= SigStart(b) \/ b.off + KeyPatternLen <= SigStart(a))}

MarkSets(n) ==
    {K \in SetsUpTo({k \in [off : MarkOffsets, pat : Markers] :
                        k.off + MarkerLen(k.pat) <= n}, MaxMarks) :
        \A a, b \in K : a # b => a.off # b.off}

\* with markers present: at most one signature, behind the markers
SigsBesideMarks(n) ==
    {G \in SigSets(n) : \A g \in G : g.off = 200 /\ g.p = LowOffset}

Memories ==
    UNION {
        {[len |-> n, sigs |-> G, marks |-> {}, near |-> "fill"] : G \in SigSets(n)}
        \cup
        {[len |-> n, sigs |-> G, marks |-> K, near |-> c] :
            G \in SigsBesideMarks(n), K \in MarkSets(n) \ {{}},
            c \in {"fill", "db", "img"} \cup (IF EdgeOffset + KeyLen <= n THEN {"edge"} ELSE {})}
        : n \in Lens}

\* chunks that hold "unopened" and, within 1000 bytes of it, "sqlite3_exec"
NamedMemories ==
    {[len |-> n, sigs |-> {},
      marks |-> {[off |-> 100, pat |-> "unopened"]}
                \cup {[off |-> o, pat |-> "sqlite3_exec"] : o \in N},
      near |-> c] :
        n \in {x \in Lens : x >= 1108}, N \in (SUBSET NameOffsets) \ {{}},
        c \in {"fill", "db"}}

\* memory[o : o+0x20] for an o with o + 0x20 <= len(memory)
Bytes32(m, o) ==
    CASE o = NearOffset /\ m.near = "db"  -> <<"db_lo", "db_hi">>
      [] o = NearOffset /\ m.near = "img" -> <<"img_a", "pad">>
      [] o = EdgeOffset /\ m.near = "edge" -> <<"db_lo", "db_hi">>
      [] o = LowOffset                    -> <<"db_lo", "db_hi">>
      [] o = JunkOffset                   -> <<"junk_a", "junk_b">>
      [] o = m.len - KeyLen - 1 /\ o > JunkOffset -> <<"img_b", "pad">>
      [] OTHER                            -> <<"fill", "fill">>

\* offsets at which a chunk holds something else than fill bytes
KeyOffsetsOf(m) ==
    {o \in {NearOffset, EdgeOffset, LowOffset, JunkOffset, m.len - KeyLen - 1} :
        o >= 0 /\ o + KeyLen <= m.len}

\* bytes.LastIndex(memory[:upto], keyPattern)
LastIndex_FirstOccurrence(m, upto) ==
    LET c == {g.off : g \in {x \in m.sigs : x.off + KeyPatternLen <= upto}}
    IN  IF c = {} THEN -1 ELSE SetMin(c)
LastIndex(m, upto) ==
    LET c == {g.off : g \in {x \in m.sigs : x.off + KeyPatternLen <= upto}}
    IN  IF c = {} THEN -1 ELSE SetMax(c)

\* int(littleEndianFunc(memory[index-ptrSize : index]))
PtrBefore(m, i) == (CHOOSE g \in m.sigs : g.off = i).p

\* bytes.Index(memory[from:], pattern): relative to the slice
Index(m, from, pat) ==
    LET c == {k.off - from : k \in {x \in m.marks : x.pat = pat /\ x.off >= from}}
    IN  IF c = {} THEN -1 ELSE SetMin(c)

\* for i := 0; i < len(memory)-32; i++ over memory[start:end], validator set
FindKeyInRange(m, start, end) ==
    LET c == {o \in KeyOffsetsOf(m) :
                 start <= o /\ o - start < (end - start) - 32 /\ TestCandidate(Bytes32(m, o)).found}
    IN  IF c = {} THEN NotFound ELSE TestCandidate(Bytes32(m, SetMin(c)))

\* for i := 0; i < len(localMemory)-8; i++: the 8-byte values of
\* memory[start:end] that point into the chunk
FindKeyByPointer(m, start, end) ==
    LET c == {g \in m.sigs :
                 /\ g.off >= PtrSize
                 /\ start <= g.off - PtrSize
                 /\ (g.off - PtrSize) - start < (end - start) - 8
                 /\ DerefAccepted(U64(g.p), m.len)
                 /\ TestCandidate(Bytes32(m, g.p)).found}
    IN  IF c = {} THEN NotFound
        ELSE TestCandidate(Bytes32(m, (CHOOSE g \in c : \A h \in c : g.off <= h.off).p))

\* what a marker strategy does with one occurrence: actualIndex is where
\* bytes.Index reported it and index the value after index += len(pattern)
AroundMarker(s, m, actualIndex, idx) ==
    LET lo(r) == IF actualIndex - r < 0 THEN 0 ELSE actualIndex - r
        hi(r) == IF idx + r > m.len THEN m.len ELSE idx + r
    IN  CASE s = "setdbkey_log" ->
               LET direct == FindKeyInRange(m, lo(200), hi(200))
               IN  IF direct.found THEN direct
                   ELSE FindKeyByPointer(m, lo(200), hi(200))
          [] s = "sqlite_safety" -> NotFound
          [] s = "weixin_dll" ->
               FindKeyInRange(m, IF idx - 500 < 0 THEN 0 ELSE idx - 500, hi(500))

\* bytes.Index(localMemory[from:], pattern) for localMemory = memory[start:end]:
\* relative to the slice
IndexLocal(m, start, end, from, pat) ==
    LET c == {(k.off - start) - from :
                 k \in {x \in m.marks : /\ x.pat = pat
                                        /\ x.off >= start + from
                                        /\ x.off + MarkerLen(pat) <= end}}
    IN  IF c = {} THEN -1 ELSE SetMin(c)

\* for _, pattern := range sqlitePatterns: the next pattern after `after`
\* that occurs in localMemory, 0 when the range is finished
NextSQLitePattern(m, start, end, after) ==
    LET c == {i \in (after + 1)..Len(SQLitePatterns) :
                 IndexLocal(m, start, end, 0, SQLitePatterns[i]) # -1}
    IN  IF c = {} THEN 0 ELSE SetMin(c)

\* searchForKeyAroundSQLiteFunction on localMemory = memory[lstart:lend]
AroundSQLiteFunction(m, lstart, lend, patternStart) ==
    LET start == IF patternStart - 500 < 0 THEN 0 ELSE patternStart - 500
        end == IF patternStart + 500 > lend - lstart THEN lend - lstart
               ELSE patternStart + 500
        direct == FindKeyInRange(m, lstart + start, lstart + end)
    IN  IF direct.found THEN direct
        ELSE FindKeyByPointer(m, lstart + start, lstart + end)

\* the pattern a marker strategy is looking for
PatternOf(s) ==
    CASE s = "setdbkey_log" -> "SetDBKey"
      [] s = "sqlite_safety" -> "unopened"
      [] s = "weixin_dll" -> WeixinDLLPatterns[sPat]

Crashed == skPc = "crashed"

\* return key, found; then resultChan <- {key, found, s.Name()}
Report(s, r) ==
    /\ sPc' = [sPc EXCEPT ![s] = "done"]
    /\ sRet' = [sRet EXCEPT ![s] = r]
    /\ resultChan' = Append(resultChan, [key |-> r.key, found |-> r.found, strategy |-> s])

\* one turn of BasePatternSearch.Search's loop
BasePatternStep ==
    LET s == "base_pattern"
        at == LastIndex(memory, sIndex[s])
    IN
    /\ sPc[s] = "loop"
    /\ ~Crashed
    /\ ~CtxDone
    /\ IF sIndex[s] < 0
          THEN \* memory[:index] with a negative bound: the goroutine panics
               /\ sPc' = [sPc EXCEPT ![s] = "panic"]
               /\ skPc' = "crashed"
               /\ UNCHANGED <<sIndex, sRet, resultChan, sUsed>>
       ELSE IF at = -1 \/ at - PtrSize < 0
          THEN /\ Report(s, NotFound)
               /\ UNCHANGED <<sIndex, skPc, sUsed>>
       ELSE LET ptrOffset == PtrBefore(memory, at)
                inside == ptrOffset > MinUserAddr /\ ptrOffset < memory.len - 32
                keyData == Bytes32(memory, ptrOffset)
                verdict == IF validator THEN TestCandidate(keyData)
                           ELSE Found(HexEncode(keyData))
            IN  /\ sUsed' = IF inside THEN sUsed \cup {ptrOffset} ELSE sUsed
                /\ IF inside /\ verdict.found
                      THEN /\ Report(s, verdict)
                           /\ UNCHANGED <<sIndex, skPc>>
                   ELSE /\ sIndex' = [sIndex EXCEPT ![s] = at - KeyPatternLen]
                        /\ UNCHANGED <<sPc, sRet, resultChan, skPc>>
    /\ UNCHANGED <<memory, validator, sPat, skI, skRet, sInner>>
    /\ UNCHANGED <<impl, status, callerDone, firedInCall, pureVars, extVars, prodVars,
                   workVars, chanVars, ghostVars>>

\* one turn of the loop of SetDBKeyLogSearch, SQLiteSafetySearch or
\* WeixinDLLSearch
MarkerStep(s) ==
    LET pat == PatternOf(s)
        actualIndex == Index(memory, sIndex[s], pat)
        idx == actualIndex + MarkerLen(pat)
        verdict == AroundMarker(s, memory, actualIndex, idx)
        start == IF actualIndex - 1000 < 0 THEN 0 ELSE actualIndex - 1000
        end == IF idx + 1000 > memory.len THEN memory.len ELSE idx + 1000
        first == NextSQLitePattern(memory, start, end, 0)
    IN
    /\ sPc[s] = "loop"
    /\ s = "sqlite_safety" => sInner = NoInner
    /\ ~Crashed
    /\ ~CtxDone
    /\ IF actualIndex = -1
          THEN IF s = "weixin_dll" /\ sPat < Len(WeixinDLLPatterns)
                  THEN /\ sPat' = sPat + 1
                       /\ sIndex' = [sIndex EXCEPT ![s] = 0]
                       /\ UNCHANGED <<sPc, sRet, resultChan, sInner>>
               ELSE /\ Report(s, NotFound)
                    /\ UNCHANGED <<sIndex, sPat, sInner>>
       ELSE IF s = "sqlite_safety" /\ first # 0
          THEN \* searchSQLiteRelatedFunctions(memory[start:end], ...) meets
               \* one of its patterns
               /\ sInner' = [pat |-> first, index |-> 0, start |-> start, end |-> end]
               /\ sIndex' = [sIndex EXCEPT ![s] = idx]
               /\ UNCHANGED <<sPc, sRet, resultChan, sPat>>
       ELSE IF verdict.found
          THEN /\ Report(s, verdict)
               /\ UNCHANGED <<sIndex, sPat, sInner>>
       ELSE /\ sIndex' = [sIndex EXCEPT ![s] = idx]
            /\ UNCHANGED <<sPc, sRet, resultChan, sPat, sInner>>
    /\ UNCHANGED <<memory, validator, skPc, skI, skRet, sUsed>>
    /\ UNCHANGED <<impl, status, callerDone, firedInCall, pureVars, extVars, prodVars,
                   workVars, chanVars, ghostVars>>

\* one turn of the inner loop of searchSQLiteRelatedFunctions, which does
\* not look at ctx
SQLiteInnerStep ==
    LET s == "sqlite_safety"
        pat == SQLitePatterns[sInner.pat]
        patternStart == IndexLocal(memory, sInner.start, sInner.end, sInner.index, pat)
        verdict == AroundSQLiteFunction(memory, sInner.start, sInner.end, patternStart)
        next == NextSQLitePattern(memory, sInner.start, sInner.end, sInner.pat)
    IN
    /\ sPc[s] = "loop"
    /\ sInner # NoInner
    /\ ~Crashed
    /\ IF patternStart = -1
          THEN \* break: on to the next pattern, or return "", false
               /\ sInner' = IF next = 0 THEN NoInner
                             ELSE [sInner EXCEPT !.pat = next, !.index = 0]
               /\ UNCHANGED <<sPc, sRet, resultChan>>
       ELSE IF verdict.found
          THEN /\ Report(s, verdict)
               /\ sInner' = NoInner
       ELSE /\ sInner' = [sInner EXCEPT !.index = patternStart + MarkerLen(pat)]
            /\ UNCHANGED <<sPc, sRet, resultChan>>
    /\ UNCHANGED <<memory, validator, sIndex, sPat, skPc, skI, skRet, sUsed>>
    /\ UNCHANGED <<impl, status, callerDone, firedInCall, pureVars, extVars, prodVars,
                   workVars, chanVars, ghostVars>>

\* case <-ctx.Done(): return "", false at the top of a Search loop
StrategyCtxDone(s) ==
    /\ sPc[s] = "loop"
    /\ s = "sqlite_safety" => sInner = NoInner
    /\ ~Crashed
    /\ CtxDone
    /\ Report(s, NotFound)
    /\ UNCHANGED <<memory, validator, sIndex, sPat, skPc, skI, skRet, sUsed, sInner>>
    /\ UNCHANGED <<impl, status, callerDone, firedInCall, pureVars, extVars, prodVars,
                   workVars, chanVars, ghostVars>>

MarkerStrategies == {"setdbkey_log", "sqlite_safety", "weixin_dll"}

\* result := <-resultChan in SearchKey's collecting loop
SearchKeyReceive_FirstReportDecides ==
    /\ skPc = "collect"
    /\ resultChan # << >>
    /\ resultChan' = Tail(resultChan)
    /\ skRet' = IF Head(resultChan).found THEN Found(Head(resultChan).key) ELSE NotFound
    /\ skPc' = "returned"
    /\ skI' = IF Head(resultChan).found THEN skI ELSE skI + 1
    /\ UNCHANGED <<memory, validator, sPc, sIndex, sPat, sRet, sUsed, sInner>>
    /\ UNCHANGED <<impl, status, callerDone, firedInCall, pureVars, extVars, prodVars,
                   workVars, chanVars, ghostVars>>
SearchKeyReceive ==
    /\ skPc = "collect"
    /\ resultChan # << >>
    /\ resultChan' = Tail(resultChan)
    /\ IF Head(resultChan).found
          THEN /\ skRet' = Found(Head(resultChan).key)
               /\ skPc' = "returned"
               /\ UNCHANGED skI
       ELSE /\ skI' = skI + 1
            /\ skPc' = IF skI + 1 = Len(Strategies) THEN "returned" ELSE "collect"
            /\ UNCHANGED skRet
    /\ UNCHANGED <<memory, validator, sPc, sIndex, sPat, sRet, sUsed, sInner>>
    /\ UNCHANGED <<impl, status, callerDone, firedInCall, pureVars, extVars, prodVars,
                   workVars, chanVars, ghostVars>>

\* SearchKey has made resultChan and started the four goroutines
SearchInit ==
    /\ impl = "v4search"
    /\ status = "Online"
    /\ PipelineIdle
    /\ PureIdle
    /\ memory \in Memories \cup NamedMemories
    /\ validator \in BOOLEAN
    /\ memory.marks # {} => validator
    /\ sPc = [s \in StrategyNames |-> "loop"]
    /\ sIndex = [s \in StrategyNames |-> IF s = "base_pattern" THEN memory.len ELSE 0]
    /\ sPat = 1
    /\ sRet = [s \in StrategyNames |-> NotFound]
    /\ resultChan = << >>
    /\ skPc = "collect"
    /\ skI = 0
    /\ skRet = NotFound
    /\ sUsed = {}
    /\ sInner = NoInner

SearchNext ==
    \/ BasePatternStep
    \/ \E s \in MarkerStrategies : MarkerStep(s)
    \/ SQLiteInnerStep
    \/ SearchKeyReceive

SearchSpec == SearchInit /\ [][SearchNext]_vars

\* -- one strategy's Search called on its own
StrategyInit ==
    /\ impl = "v4search"
    /\ status = "Online"
    /\ PipelineIdle
    /\ PureIdle
    /\ memory \in Memories \cup NamedMemories
    /\ validator \in BOOLEAN
    /\ memory.marks # {} => validator
    /\ \E s \in StrategyNames : sPc = [t \in StrategyNames |-> IF t = s THEN "loop" ELSE "idle"]
    /\ sIndex = [s \in StrategyNames |-> IF s = "base_pattern" THEN memory.len ELSE 0]
    /\ sPat = 1
    /\ sRet = [s \in StrategyNames |-> NotFound]
    /\ resultChan = << >>
    /\ skPc = "idle"
    /\ skI = 0
    /\ skRet = NotFound
    /\ sUsed = {}
    /\ sInner = NoInner

StrategyNext ==
    \/ BasePatternStep
    \/ \E s \in MarkerStrategies : MarkerStep(s)
    \/ SQLiteInnerStep
    \/ \E s \in StrategyNames : StrategyCtxDone(s)
    \/ CallerCancel

\* a Search that can take a step eventually takes one
StrategyFairness ==
    /\ WF_vars(BasePatternStep)
    /\ \A s \in MarkerStrategies : WF_vars(MarkerStep(s))
    /\ WF_vars(SQLiteInnerStep)
    /\ \A s \in StrategyNames : WF_vars(StrategyCtxDone(s))

StrategySpec == StrategyInit /\ [][StrategyNext]_vars /\ StrategyFairness

\* ------------------------------------------------------------------ claims
\* the pointer in front of the highest-offset signature of the chunk
HighestSig == CHOOSE g \in memory.sigs : \A h \in memory.sigs : g.off >= h.off

\* 0x10000 < p < len(chunk) - 32
InsideChunk(p) == p > 65536 /\ p < memory.len - 32

\* C11: with no validator set, for a chunk without marker strings whose
\* highest-offset signature, at offset >= 8, is preceded by a value p with
\* 0x10000 < p < len - 32, SearchKey returns found = true and the hex text
\* of chunk[p .. p+32).
C11_BasePatternKey ==
    (/\ ~validator /\ memory.marks = {} /\ memory.sigs # {}
     /\ HighestSig.off >= 8 /\ InsideChunk(HighestSig.p))
    => /\ ~Crashed
       /\ skPc = "returned" =>
             skRet = [key |-> HexEncode(Bytes32(memory, HighestSig.p)), found |-> TRUE]

\* C11 witness: SearchKey has returned the key the last of two signatures
\* points at, the earlier signature pointing somewhere else
C11_Witness ==
    /\ ~validator /\ memory.marks = {} /\ Cardinality(memory.sigs) = 2
    /\ InsideChunk(HighestSig.p)
    /\ \E g \in memory.sigs : g.p # HighestSig.p /\ InsideChunk(g.p)
    /\ skPc = "returned" /\ skRet.found

\* C12: for a chunk with neither the signature nor any marker string,
\* SearchKey returns the empty key and found = false, with or without a
\* validator.
C12_NothingToFind ==
    (memory.sigs = {} /\ memory.marks = {})
    => /\ ~Crashed
       /\ \A s \in StrategyNames :
             sPc[s] = "done" => (sRet[s].key = NoKey /\ ~sRet[s].found)
       /\ skPc = "returned" => (skRet.key = NoKey /\ ~skRet.found /\ skI = 4)

\* C12 witness: with a validator set, SearchKey has returned from such a
\* chunk after all four strategies reported
C12_Witness ==
    /\ memory.len > 0 /\ memory.sigs = {} /\ memory.marks = {} /\ validator
    /\ skPc = "returned" /\ skI = 4

\* C13: BasePattern takes key bytes only at a p with 0x10000 < p < len - 32,
\* and when every occurrence's p is outside that range the search returns
\* the empty key and found = false.
C13_OutsidePointersRejected ==
    /\ \A p \in sUsed : InsideChunk(p)
    /\ (/\ sPc["base_pattern"] \notin {"idle", "loop"}
        /\ \A g \in memory.sigs : ~InsideChunk(g.p))
       => (sPc["base_pattern"] = "done" /\ sRet["base_pattern"] = NotFound)

\* C18: no validated key is lost: when the caller never cancels and the
\* validator approved a candidate for a slot during the call (the DB key in
\* V3; the DB key or the image key in V4), Extract returns a non-empty key
\* for that slot and does not return NoValidKey.
C18_NoValidatedKeyLost ==
    (extPc = "returned" /\ ~callerDone) =>
        /\ "db" \in approved => (ret.dataKey # NoKey /\ ret.err # "NoValidKey")
        /\ "img" \in approved => (ret.imgKey # NoKey /\ ret.err # "NoValidKey")

\* C19: if the caller never cancels and the target has finitely many
\* regions, Extract eventually returns.
C19_ExtractReturns == <>(extPc = "returned")

\* C20: each strategy's Search returns after finitely many steps on every
\* finite chunk when no candidate validates and the context is never
\* cancelled, including chunks with two or more occurrences of one marker.
C20_SearchReturns ==
    <>(Crashed \/ \A s \in StrategyNames : sPc[s] # "loop")

Returned == extPc = "returned"

\* the return statements of Extract that follow a successful OpenProcess
AfterOpen == {"archfail", "cancel", "key", "both", "closed"}

\* C1: in V4 Extract the merged result is monotonic: once the merged dataKey
\* (respectively imgKey) is non-empty, no later received pair changes it.
C1_MonotonicMerge ==
    [][(finalDataKey # NoKey => finalDataKey' = finalDataKey)
       /\ (finalImgKey # NoKey => finalImgKey' = finalImgKey)]_vars

\* C2: an Extract call that opened the process handle has closed it exactly
\* once when it has returned, whichever return statement it took, and no
\* handle is ever closed more than once.
C2_HandleClosedOnce ==
    /\ closeCount <= 1
    /\ handle = "open" => ~Returned
    /\ (Returned /\ retPath \in AfterOpen) => (handle = "closed" /\ closeCount = 1)

\* C2 witness: a cancelled call has returned with its handle closed once
C2_Witness ==
    Returned /\ retPath = "cancel" /\ handle = "closed" /\ closeCount = 1

\* C3: the handle is closed only after the producer and all workers have
\* terminated: no query or read goes through the handle after its close
\* (stated for the calls the caller does not cancel).
C3_NoUseAfterClose == ~callerDone => ~lateUse

\* C4: once the caller's token has fired, an Extract that was still running
\* returns the cancellation error with both keys empty, never keys or
\* NoValidKey.
C4_CancelWins ==
    (Returned /\ firedInCall /\ retPath \in {"cancel", "key", "both", "closed"})
        => ret = Result(NoKey, NoKey, "Cancelled")

\* C5: when one chunk holds a DB-key candidate and an image-key candidate the
\* scan reaches, and the caller never cancels, V4 Extract returns both keys
\* non-empty with no error.
C5_BothFromOneChunk ==
    (Returned /\ impl \in V4 /\ ~callerDone /\ bothInChunk)
        => (ret.dataKey # NoKey /\ ret.imgKey # NoKey /\ ret.err = "nil")

\* C6: when the V3 module is not loaded in the target process (and the caller
\* does not cancel), V3 Extract returns WeChatDLLNotFound with both keys empty.
C6_ModuleMissing ==
    (Returned /\ impl = "v3" /\ prodErr = "WeChatDLLNotFound" /\ ~callerDone)
        => ret = Result(NoKey, NoKey, "WeChatDLLNotFound")

\* C7: within one Extract call the validator is handed each target address at
\* most once, counted across all workers and all chunks.
C7_ValidatedOnce == ~revalidated

\* C8: in V4 Extract without caller cancellation, when the result channel is
\* seen closed: with exactly one slot filled the call returns that key, the
\* other slot empty and no error; with no slot filled it returns NoValidKey
\* with both keys empty.
C8_ClosedChannelResult ==
    (Returned /\ impl \in V4 /\ retPath = "closed" /\ ~callerDone) =>
        /\ (finalDataKey # NoKey /\ finalImgKey = NoKey)
              => ret = Result(finalDataKey, NoKey, "nil")
        /\ (finalDataKey = NoKey /\ finalImgKey # NoKey)
              => ret = Result(NoKey, finalImgKey, "nil")
        /\ (finalDataKey = NoKey /\ finalImgKey = NoKey)
              => ret = Result(NoKey, NoKey, "NoValidKey")

\* C8 witness: the channel was seen closed with only the DB key filled, and
\* the call returned it without error
C8_Witness ==
    /\ Returned /\ impl \in V4 /\ retPath = "closed" /\ ~callerDone
    /\ finalDataKey # NoKey /\ finalImgKey = NoKey
    /\ ret = Result(finalDataKey, NoKey, "nil")

\* C9: every Extract implementation returns a nil error only together with at
\* least one non-empty key.
C9_NilOnlyWithKey ==
    (Returned /\ ret.err = "nil") => (ret.dataKey # NoKey \/ ret.imgKey # NoKey)

\* C10: V3 and V4 Extract on a process whose status is Offline return
\* WeChatOffline with both keys empty, open no handle and start neither the
\* producer, nor the joiner, nor a worker.
C10_OfflineReturnsEarly ==
    (impl \in Windows /\ status = "Offline") =>
        /\ extPc \in {"start", "returned"}
        /\ Returned => ret = Result(NoKey, NoKey, "WeChatOffline")
        /\ handle = "none" /\ closeCount = 0
        /\ prodPc = "idle" /\ workerCount = 0 /\ ~resClosed /\ ~memClosed

\* C10 witness: an Extract on an offline process has returned
C10_Witness ==
    /\ impl \in Windows /\ status = "Offline" /\ Returned
    /\ ret.err = "WeChatOffline" /\ handle = "none"

\* C14: a pointer-chase worker reads candidate bytes only at pointer values
\* above 0x10000 and not above the maximum user address of the target
\* (0x7FFFFFFF for a 32-bit target, 0x7FFFFFFFFFFF for a 64-bit one).
C14_PtrWithinPlatform ==
    (pOp = "ptr" /\ pOut = 1) =>
        /\ WideLess(Wide(MinUserAddr), pIn.ptrValue)
        /\ ~WideLess(MaxAddrOf(pIn.is64Bit), pIn.ptrValue)

\* C15: the enumerator never reads or emits a region whose size is below
\* its threshold: 100 KiB for the V3 module scan, 1 MiB for the V4 scans.
C15_SmallRegionsSkipped ==
    pOp = "region" =>
        LET threshold == IF pIn.impl = "v3" THEN 102400 ELSE 1048576
        IN  (pOut.read \/ pOut.sent) => pIn.RegionSize >= threshold

\* C15 witness: a V4 scan met a readable region one byte short of 1 MiB and
\* neither read nor sent it
C15_Witness ==
    /\ pOp = "region" /\ pIn.impl \in V4 /\ pIn.RegionSize = 1048575
    /\ pIn.passesFilter /\ pIn.readOk /\ ~pOut.read /\ ~pOut.sent

\* C16: Extract starts max(2, min(16, NumCPUs)) workers, and at no point are
\* more than that many workers started or active.
C16_WorkerCount ==
    pOp = "workers" =>
        LET capped == IF pIn < MaxWorkers THEN pIn ELSE MaxWorkers
            clamp == IF capped > MinWorkers THEN capped ELSE MinWorkers
        IN  pOut = clamp /\ pStarted <= clamp /\ pActive <= pStarted

\* C16 witness: with more than 16 processors the spawn loop has started its
\* 16 workers and all are active
C16_Witness ==
    pOp = "workers" /\ pIn > MaxWorkers /\ pStarted = MaxWorkers /\ pActive = MaxWorkers

\* C17: v4getKey exits with status 0 only when Extract returned no error and
\* at least one key is non-empty; a missing pid, a validator construction
\* failure, an Extract error, or two empty keys end it with status 1.
C17_ExitStatus ==
    pOp = "main" =>
        /\ pOut \in {0, 1}
        /\ pOut = 0 <=> /\ pIn.pid # 0
                        /\ ~pIn.validatorErr
                        /\ pIn.r.err = "nil"
                        /\ (pIn.r.dataKey # NoKey \/ pIn.r.imgKey # NoKey)

\* C17 witness: Extract returned no error and two empty keys, and the
\* command exits with status 1
C17_Witness ==
    /\ pOp = "main" /\ pIn.pid # 0 /\ ~pIn.validatorErr
    /\ pIn.r = Result(NoKey, NoKey, "nil") /\ pOut = 1

\* C22: the result channel is closed only after the producer has finished
\* and every worker has terminated, so no value is sent on it once it is
\* closed, and a coordinator that sees it closed and empty can receive
\* nothing more.
C22_ClosedAfterAllSenders ==
    /\ [](resClosed => /\ prodPc = "done"
                       /\ \A w \in Workers : wPc[w] = "done")
    /\ [][resClosed => Len(resultChannel') <= Len(resultChannel)]_vars

C22_Witness ==
    /\ resClosed /\ Returned /\ retPath = "closed"
    /\ workerCount > 1 /\ \A w \in Workers : wPc[w] = "done"

\* C23: the producer closes the chunk queue exactly once on every exit
\* path, nothing is sent on the queue after the close, and a worker that
\* finds the queue closed and empty terminates.
C23_QueueClosedOnce ==
    /\ [](/\ memClosed <=> prodPc = "done"
          /\ memCloseCount = IF memClosed THEN 1 ELSE 0)
    /\ [][memClosed => Len(memoryChannel') <= Len(memoryChannel)]_vars
    /\ [][\A w \in DOMAIN wPc \cap DOMAIN wPc' :
            (/\ wPc[w] = "recv" /\ memClosed /\ memoryChannel = << >>
             /\ wPc'[w] # "recv") => wPc'[w] = "done"]_vars

C23_Witness ==
    /\ memClosed /\ memCloseCount = 1 /\ prodErr = "WeChatDLLNotFound"
    /\ workerCount > 0 /\ \A w \in Workers : wPc[w] = "done"

\* C24: in V4 the coordinator returns both keys with no error, and cancels
\* the search context, as soon as both merged slots are filled, whatever is
\* left in the queue; a V4 worker with both local slots filled consumes no
\* further chunk; in V3 the first key received makes Extract return it and
\* cancel the search context.
C24_StopsOnKeys ==
    /\ (impl \in V4 /\ extPc = "select")
          => (finalDataKey = NoKey \/ finalImgKey = NoKey)
    /\ (Returned /\ retPath = "both")
          => /\ cancelCalled
             /\ finalDataKey # NoKey /\ finalImgKey # NoKey
             /\ ret = Result(finalDataKey, finalImgKey, "nil")
    /\ \A w \in Workers :
          (impl \in V4 /\ dataKey[w] # NoKey /\ imgKey[w] # NoKey)
             => wPc[w] = "send"
    /\ (impl = "v3" /\ Returned /\ retPath = "key")
          => cancelCalled /\ ret.dataKey # NoKey /\ ret.err = "nil"

C24_Witness ==
    /\ impl \in V4 /\ Returned /\ retPath = "both"
    /\ memoryChannel # << >> /\ ~memClosed

C24_WitnessV3 ==
    /\ impl = "v3" /\ Returned /\ retPath = "key" /\ memoryChannel # << >>

\* C30: a failed ReadProcessMemory of one region does not end the
\* enumeration: the region is dropped with no chunk queued and no error
\* recorded, the loop goes on with the next region, and while the context
\* is live a later region that passes the filters is still read and queued.
C30_ReadFailureSkipsRegion ==
    /\ [][readFailures' # readFailures =>
            /\ memoryChannel' = memoryChannel
            /\ prodErr' = prodErr /\ ~memClosed'
            /\ regionsLeft' = regionsLeft - 1
            /\ prodPc' = LoopTop(impl)]_vars
    /\ [](readFailures > 0 => prodErr = "none")
    /\ []((readFailures > 0 /\ LoopRuns /\ regionsLeft > 0) => ENABLED ProducerRead)
    /\ []((readFailures > 0 /\ prodPc = "send" /\ ~CtxDone
           /\ Len(memoryChannel) < MemoryChannelCap) => ENABLED ProducerSend)

C30_Witness ==
    /\ readFailures > 0 /\ ~CtxDone /\ prodErr = "none"
    /\ prodPc = "send" /\ Len(memoryChannel) < MemoryChannelCap

\* C29: BasePattern's backward scan never slices the chunk with a negative
\* or out-of-range bound: at every turn of the loop 0 <= index <= len, so
\* the goroutine never panics and the scan ends with a result.
C29_ScanBoundsStayInChunk ==
    /\ sPc["base_pattern"] = "loop"
          => (0 <= sIndex["base_pattern"] /\ sIndex["base_pattern"] <= memory.len)
    /\ sPc["base_pattern"] # "panic"

\* what testing the occurrence g yields: nothing when the value in front of
\* it is outside (0x10000, len - 32)
VerdictAt(g) ==
    IF ~InsideChunk(g.p) THEN NotFound
    ELSE IF validator THEN TestCandidate(Bytes32(memory, g.p))
    ELSE Found(HexEncode(Bytes32(memory, g.p)))

\* the occurrences of the signature with room for a pointer in front
Candidates == {g \in memory.sigs : g.off >= PtrSize}

\* a backward scan that examines every occurrence at offset >= 8, from the
\* highest offset down, and stops at the first that yields a key
ScanEveryOccurrence ==
    LET hits == {g \in Candidates : VerdictAt(g).found} IN
    IF hits = {} THEN NotFound
    ELSE VerdictAt(CHOOSE g \in hits : \A h \in hits : g.off >= h.off)

\* C25: stepping back by len(keyPattern) after a rejected occurrence loses
\* no candidate: BasePattern returns what a scan over every occurrence at
\* offset >= 8 returns, and when it finds nothing it has taken the bytes at
\* every in-range pointer in front of such an occurrence.
C25_StepLosesNoCandidate ==
    sPc["base_pattern"] = "done" =>
        /\ sRet["base_pattern"] = ScanEveryOccurrence
        /\ ~sRet["base_pattern"].found =>
              \A g \in Candidates : InsideChunk(g.p) => g.p \in sUsed

\* the 32-byte windows that lie entirely within 200 bytes before and after
\* the "SetDBKey" at offset a
WindowsAround(a) ==
    LET lo == IF a - 200 < 0 THEN 0 ELSE a - 200
        hi == IF a + 8 + 200 > memory.len THEN memory.len ELSE a + 8 + 200
    IN  {o \in KeyOffsetsOf(memory) : lo <= o /\ o + KeyLen <= hi}

\* C27: SetDBKeyLog hands the validator every 32-byte window lying entirely
\* within [max(0, a-200), min(len, a+8+200)) around a "SetDBKey" at offset
\* a, the last window included: when one of these windows holds bytes the
\* validator approves, the strategy does not end with found = false.
C27_EveryWindowSubmitted ==
    (/\ validator /\ sPc["setdbkey_log"] = "done"
     /\ \E k \in memory.marks :
           /\ k.pat = "SetDBKey"
           /\ \E o \in WindowsAround(k.off) : TestCandidate(Bytes32(memory, o)).found)
    => sRet["setdbkey_log"].found

\* C28: in SetDBKeyLog and SQLiteSafety the 32 bytes at an 8-byte value v
\* are read only when 0x10000 < v and v + 32 <= len, for every chunk
\* length, those below 32 bytes included: no read falls outside the chunk.
C28_DerefStaysInChunk ==
    pOp = "deref" =>
        /\ pOut.read => (/\ U64Less(U64(65536), pIn.ptrValue)
                         /\ SliceInBounds(pIn.ptrValue, pIn.len))
        /\ ~pOut.panics

\* C21: once the search context is cancelled, every strategy task started
\* by SearchKey eventually terminates (and with it the worker that called
\* SearchKey), without any further chunk arriving.
C21_CancelStopsStrategies ==
    CtxDone ~> (Crashed \/ \A s \in StrategyNames : sPc[s] # "loop")

\* C26: on a chunk where no candidate validates and the context stays
\* live, the V3 worker and the V4 pointer-chase worker examine every
\* occurrence of keyPattern at an offset >= ptrSize, in strictly decreasing
\* order of offset; none is skipped, an occurrence that ends exactly where
\* a later one begins included.
C26_EveryOccurrenceExamined ==
    pOp = "scan" =>
        /\ \A k \in 1..(Len(pOut) - 1) : pOut[k] > pOut[k + 1]
        /\ {pOut[k] : k \in 1..Len(pOut)}
              = {o \in pIn.occ : o >= PtrSizeOf(pIn.impl, pIn.is64Bit)}

\* C31: a worker never blocks on sending to the result channel: a worker
\* that has a result to send while a result is pending in the capacity-1
\* channel (and the context is live) is not left waiting at the send.
C31_SendNeverBlocks ==
    \A w \in Workers : wPc[w] = "send" => (HasRoom \/ CtxDone)

\* C32: once the search context is cancelled the producer acquires no
\* further region (no VirtualQueryEx answer is consumed, nothing is read)
\* and queues no further chunk.
C32_CancelStopsAcquisition ==
    [][CtxDone => /\ regionsLeft' = regionsLeft
                  /\ Len(memoryChannel') <= Len(memoryChannel)]_vars

\* C33: when SearchKey has returned, found = true exactly when it received
\* a found = true report, and the key is the key of a strategy that
\* reported found = true; found = false only after all configured
\* strategies have reported found = false.  resultChan never holds more
\* reports than its capacity len(strategies), so no strategy waits at its
\* send, before or after SearchKey returns.
C33_SearchKeyResult ==
    /\ Len(resultChan) <= Len(Strategies)
    /\ skPc = "returned" =>
          IF skRet.found
          THEN \E s \in StrategyNames :
                  sPc[s] = "done" /\ sRet[s].found /\ sRet[s].key = skRet.key
          ELSE /\ skRet = NotFound
               /\ \A s \in StrategyNames : sPc[s] = "done" /\ ~sRet[s].found

\* C33 witness: SearchKey returned a key, and the strategies that went on
\* have all reported since, their reports left in resultChan
C33_Witness ==
    /\ skPc = "returned" /\ skRet.found
    /\ \A s \in StrategyNames : sPc[s] = "done"
    /\ Len(resultChan) >= 2
    /\ \E s \in StrategyNames : ~sRet[s].found

\* C33 witness: every strategy reported found = false
C33_WitnessNone ==
    /\ skPc = "returned" /\ ~skRet.found /\ memory.sigs # {} /\ resultChan = << >>

\* C34: a 32-byte candidate the validator approves both as DB key and as
\* image key is reported as the DB key only, as the hex of all 32 bytes; a
\* candidate is reported as image key, as the hex of its first 16 bytes,
\* only when its DB-key validation fails.
C34_DBKeyTakesPrecedence ==
    pOp = "classify" =>
        LET b == Bytes32At(pIn.addr)
            img == HexEncode(SubSeq(b, 1, 1))
        IN  /\ Validate(b) =>
                  /\ pOut.validateKey = [key |-> HexEncode(b), isImgKey |-> FALSE]
                  /\ pOut.strategy = Found(HexEncode(b))
                  /\ pOut.slot = "db"
            /\ pOut.validateKey.isImgKey =>
                  (~Validate(b) /\ pOut.validateKey.key = img)
            /\ pOut.slot \in {"img16", "img32"} =>
                  (~Validate(b) /\ pOut.strategy = Found(img))

\* C34 witness: the candidate approved as both has been classified
C34_Witness ==
    /\ pOp = "classify"
    /\ Validate(Bytes32At(pIn.addr)) /\ ValidateImgKey(Bytes32At(pIn.addr))
    /\ pOut.slot = "db" /\ ~pOut.validateKey.isImgKey

\* C35: a chunk shorter than S + len(P) bytes, or whose only occurrences of
\* the pattern lie at offsets below the pointer size S, yields no candidate:
\* the scan of the V3 worker and of the V4 pointer-chase worker examines no
\* offset of it, so it reads no target and calls no validator.
C35_NoRoomNoCandidate ==
    pOp = "scan" =>
        LET S == PtrSizeOf(pIn.impl, pIn.is64Bit)
            P == PatternLenOf(pIn.impl, pIn.is64Bit)
        IN  (pIn.len < S + P \/ \A o \in pIn.occ : o < S) => pOut = << >>

\* C35 witness: a chunk too short for a pointer in front of the pattern it
\* holds has been scanned
C35_Witness ==
    /\ pOp = "scan"
    /\ pIn.occ # {}
    /\ pIn.len < PtrSizeOf(pIn.impl, pIn.is64Bit) + PatternLenOf(pIn.impl, pIn.is64Bit)
    /\ pOut = << >>

\* C35 witness: a long chunk whose only occurrences lie below the pointer
\* size has been scanned
C35_WitnessLow ==
    /\ pOp = "scan"
    /\ pIn.len = ScanLen
    /\ pIn.occ # {}
    /\ \A o \in pIn.occ : o < PtrSizeOf(pIn.impl, pIn.is64Bit)
    /\ pOut = << >>

\* C35 for the BasePattern scan: a chunk whose only occurrences of
\* keyPattern lie below ptrSize has no bytes taken from it and no key found
C35_BasePatternNoCandidate ==
    (memory.sigs # {} /\ \A g \in memory.sigs : g.off < PtrSize) =>
        /\ sUsed = {}
        /\ sPc["base_pattern"] = "done" => sRet["base_pattern"] = NotFound

\* C35 witness for the BasePattern scan
C35_WitnessBasePattern ==
    /\ memory.sigs # {} /\ \A g \in memory.sigs : g.off < PtrSize
    /\ sPc["base_pattern"] = "done"

====
